---- MODULE Spec2Model ----
(***************************************************************************)
(* Verification model of the MBP481 serial-protocol exploration scripts:   *)
(* the boot handshake, the frame codec with its CRC-16/MODBUS checksum,    *)
(* the response classification, the automated fuzz suite, the register     *)
(* scan and the offline dump analysis.                                     *)
(*                                                                         *)
(* Byte strings (Python bytes / str) are sequences of byte values 0..255.  *)
(* Time is counted in ticks of half a second inside boot_sync.             *)
(***************************************************************************)
EXTENDS Integers, Sequences, FiniteSets, TLC

VARIABLES
    \* ---- frame codec (ate_command_sender.build_frame, crc16_modbus)
    op, payload, frame, crcOut, codecPc,
    \* ---- response classification (run_test / fuzz_opcode_0D_2_bytes)
    response, classification, runTestResult, classPc,
    \* ---- a session of automated_suite.main or ate_command_sender.main
    prog,            \* which main() runs: "suite", "sender" ("none": not run)
    pc,              \* the statement main() is at
    buf,             \* boot_sync: buf
    elapsed,         \* boot_sync: time.time() - (deadline - timeout), in ticks
    bootResult,      \* boot_sync: which of its three exits was taken
    keysWritten,     \* number of sess.write(b"y\r") calls so far
    framesWritten,   \* number of command frames written so far
    lastWrite,       \* the bytes of the last sess.write
    module,          \* the test module running (1..4)
    cand,            \* the module's loop index, counted from 0
    echo,            \* the last response read by run_test / send_and_get_response
    suiteResult,     \* module that reported success, 0 if none, -1 while running
    closed,          \* sess.close() was awaited
    \* ---- observations of the session (written, never read, by the program)
    promptSeen,      \* PROMPT occurred in the input accumulated by the prompt wait
    readySeen,       \* a READY marker occurred in the input after the mode key
    acceptedSeen,    \* some probe response was ACCEPTED
    winModule,       \* module and 1-based candidate of the first ACCEPTED probe
    winCand,
    invoked,         \* the modules entered so far
    \* ---- a register scan (scan_and_save)
    scanner,         \* "master": master_analyzer, "daynight": day_night_mapper
    profile,         \* how the device answers, per address
    scanPc,          \* the statement scan_and_save is at
    addr,            \* the loop variable
    register_map,    \* the dict being built
    pending,         \* bytes the device sent that no read has consumed yet
    cmdsWritten,     \* number of sess.write calls of the scan so far
    lastCmd,         \* the bytes of the last sess.write of the scan
    savedDump,       \* the content written by json.dump, "NONE" before
    \* ---- the offline analyses (analyze_day_night, final_analysis)
    stage,           \* 3: analyze_day_night, 5: final_analysis (0: not run)
    day_map,         \* json.load of day_dump.json
    other_map,       \* json.load of night_dump.json / tweaked_dump.json
    static_regs,     \* analyze_day_night: static_regs
    dynamic_regs,    \* analyze_day_night: dynamic_regs
    changes,         \* final_analysis: the change lines printed
    noChangesPrinted,\* final_analysis: the 'no changes' lines were printed
    diffPc,
    \* ---- mbp481_superfuzzer: the four coroutines of main()
    sfMode,          \* --mode: "ate" / "loader"
    sfStrategy,      \* --strategy: "memdump" / "overflow0d"
    now,             \* time.monotonic(), in seconds
    last_activity,   \* UARTSession.last_activity
    boot_ready,      \* the asyncio.Event
    bsPc,            \* bootsync: position
    bsBuf,           \* bootsync: buf
    key_sent,        \* bootsync: key_sent
    deadline,        \* bootsync: deadline
    prPc,            \* printer: position
    fmPc,            \* freeze_monitor: position
    fmWake,          \* freeze_monitor: end of the current sleep
    dtr,             \* sess.writer.transport.serial.dtr
    stPc,            \* strategy.run: position
    readers,         \* the coroutines with a read outstanding on the channel
    sfWrites,        \* the data written to the channel: <<writer, bytes>>
    delivered,       \* number of chunks the device has delivered
    eof,             \* the stream is at EOF (reads return b'' at once)
    sfPromptSeen,    \* KEY_PROMPT_RE has matched buf
    freezeSeen,      \* the freeze condition held when DTR was last lowered
    \* ---- the frame builders of the scripts, side by side
    builder,         \* the script whose builder is called
    bOp,             \* its opcode argument
    bPayload,        \* its payload argument
    bFrame,          \* the frame it returns
    bRef,            \* ate_command_sender.build_frame on the same arguments
    bPc,
    \* ---- mbp481_crc_discovery_fuzzer: the fuzz loop of main()
    dLength,         \* length
    dPhase,          \* "named": the loop over ALGORITHMS; "brute": the CRC loop
    dIdx,            \* index into ALGORITHMS
    dCrc,            \* the brute-force candidate
    dAccepted,       \* accepted
    dFrame,          \* the frame written last
    dResp,           \* resp
    dReport,         \* the outcome printed last
    dPc,
    \* ---- register-scan scripts: mode entry and main()
    eMode,           \* the mode key: "c" / "n"
    ePc,             \* position in enter_cmos_mode / enter_scan_mode / main
    eBuf,            \* buf, then confirmation_buf (empty outside the entry)
    eElapsed,        \* time spent in the current wait, in 0.1 s
    eKeys,           \* the mode keys written
    eLastKey,        \* the bytes of the last mode key written
    eResult,         \* the return value of the mode entry
    ePromptSeen,     \* b"Please key" was in buf
    eConfirmSeen,    \* b"Example:" was in confirmation_buf
    eClosed,         \* sess.close() was called
    \* ---- prompt waits without a deadline: superfuzzer_fixed, superfuzz,
    \* ---- fuzzer2
    pwScript,        \* "fixed" / "superfuzz" / "fuzzer2"
    pwChannel,       \* "silent": no byte ever arrives; "talking"; "eof"
    pwPc,            \* "prompt_wait" / "key_sent"
    pwBuf,           \* buf
    pwElapsed,       \* time since the wait began, in 0.1 s, as far as counted
    pwWritten,       \* the bytes written after the prompt
    pwEmpty,         \* a read has returned b""
    \* ---- final_explorer: main after enter_cmos_mode returned True
    feOp,            \* "read" / "write" / "tweak-reset"
    feAddr,          \* int(ADDR, 16)
    feArg,           \* int(VALUE, 16) of --write
    feReads,         \* what the reads after the read command return
    feOriginal,      \* the result of read_register, -1 for None
    feCmds,          \* the commands written, in order
    fePc,
    rwPc,            \* discovery BootSync: "idle", "wait", "ready", "degraded"
    rwStage,         \* which of the three read_until calls runs (1..3)
    rwBuf,           \* buf of the running read_until
    rwT,             \* seconds since the running read_until started
    rwAll,           \* every byte received since the key was written
    rwChunks,        \* chunks delivered so far
    twScript,        \* tweak flow: "master" (stage 4) or "tweak" (tweak_and_scan)
    twReg,           \* the register that is tweaked
    twPc,            \* "idle", "prompt_wait", "confirm_wait", "tweak", "scanning", "closing", "exited"
    twBuf,           \* buf / confirmation_buf of enter_cmos_mode
    twT,             \* seconds spent in the running wait
    twKeys,          \* mode keys written
    twConfirmSeen,   \* b"Example:" was received after the key
    twWrites,        \* the write commands sent, in order
    twClosed,        \* sess.close() was called
    swMode,          \* fuzzer2: MODE, "loader", "ate" or "raw"
    swVal,           \* val of the sweep loop
    swFreeze,        \* freeze
    swHist,          \* the last events: "e" empty response, "d" data, "r" recovery written
    swSent,          \* the frames written by the last pass of the loop
    swPc,            \* "idle", "sweep", "closed"
    dbK,             \* gen_de_bruijn: len(charset)
    dbLength,        \* the argument length
    dbPc,            \* "idle", "call", "returned", "failed"
    dbCalls,         \* calls that have returned
    dbFirst,         \* what the first call returned
    dbLast,          \* what the last call returned
    spScript,        \* prompt wait of "sender" (ate_command_sender) or "explorer" (final_explorer)
    spPc,            \* "idle", "wait", "detected", "missed"
    spBuf,           \* buf
    spT,             \* time since the wait began, in units of 0.1 s
    spStream,        \* every byte the reads have delivered, in order
    spDataReads,     \* reads that delivered data
    spGap            \* a read timed out after the first data had arrived

codecVars == <<op, payload, frame, crcOut, codecPc>>
classVars == <<response, classification, runTestResult, classPc>>
sessVars == <<prog, pc, buf, elapsed, bootResult, keysWritten, framesWritten,
              lastWrite, module, cand, echo, suiteResult, closed>>
obsVars == <<promptSeen, readySeen, acceptedSeen, winModule, winCand, invoked>>
scanVars == <<scanner, profile, scanPc, addr, register_map, pending,
              cmdsWritten, lastCmd, savedDump>>
diffVars == <<stage, day_map, other_map, static_regs, dynamic_regs, changes,
              noChangesPrinted, diffPc>>
sfVars == <<sfMode, sfStrategy, now, last_activity, boot_ready, bsPc, bsBuf,
            key_sent, deadline, prPc, fmPc, fmWake, dtr, stPc, readers,
            sfWrites, delivered, eof, sfPromptSeen, freezeSeen>>
bldVars == <<builder, bOp, bPayload, bFrame, bRef, bPc>>
discVars == <<dLength, dPhase, dIdx, dCrc, dAccepted, dFrame, dResp, dReport, dPc>>
entryVars == <<eMode, ePc, eBuf, eElapsed, eKeys, eLastKey, eResult,
               ePromptSeen, eConfirmSeen, eClosed>>
pwVars == <<pwScript, pwChannel, pwPc, pwBuf, pwElapsed, pwWritten, pwEmpty>>
feVars == <<feOp, feAddr, feArg, feReads, feOriginal, feCmds, fePc>>
rwVars == <<rwPc, rwStage, rwBuf, rwT, rwAll, rwChunks>>
twVars ==
    <<twScript, twReg, twPc, twBuf, twT, twKeys, twConfirmSeen, twWrites,
      twClosed>>
swVars == <<swMode, swVal, swFreeze, swHist, swSent, swPc>>
dbVars == <<dbK, dbLength, dbPc, dbCalls, dbFirst, dbLast>>
spVars == <<spScript, spPc, spBuf, spT, spStream, spDataReads, spGap>>
extVars ==
    <<sfVars, bldVars, discVars, entryVars, pwVars, feVars, rwVars, twVars,
      swVars, dbVars, spVars>>
vars == <<codecVars, classVars, sessVars, obsVars, scanVars, diffVars, extVars>>

(***************************************************************************)
(* Byte-string literals of the sources, as ASCII codes.                    *)
(***************************************************************************)
\* b"Please key 'y'"
PROMPT == <<80, 108, 101, 97, 115, 101, 32, 107, 101, 121, 32, 39, 121, 39>>
\* b"Start ATE", b"Start ATE Test", b"eATE_INIT"
READY == << <<83, 116, 97, 114, 116, 32, 65, 84, 69>>,
            <<83, 116, 97, 114, 116, 32, 65, 84, 69, 32, 84, 101, 115, 116>>,
            <<101, 65, 84, 69, 95, 73, 78, 73, 84>> >>
\* b"y\r"
MODE_KEY == <<121, 13>>
\* b"Preamble Error"
PreambleError == <<80, 114, 101, 97, 109, 98, 108, 101, 32, 69, 114, 114, 111, 114>>
\* b"CMD Error"
CmdError == <<67, 77, 68, 32, 69, 114, 114, 111, 114>>
\* CR = b"\x0D"
CR == <<13>>

(***************************************************************************)
(* Python primitives used by the sources.                                  *)
(***************************************************************************)
\* sub in s, for bytes
Contains(sub, s) ==
    \E i \in 1..(Len(s) - Len(sub) + 1) : SubSeq(s, i, i + Len(sub) - 1) = sub

\* bytes.strip(): ASCII whitespace is space, \t, \n, \v, \f, \r
IsSpace(b) == b \in {32, 9, 10, 11, 12, 13}

RECURSIVE LStrip(_)
LStrip(s) == IF s # <<>> /\ IsSpace(Head(s)) THEN LStrip(Tail(s)) ELSE s

RECURSIVE RStrip(_)
RStrip(s) ==
    IF s # <<>> /\ IsSpace(s[Len(s)]) THEN RStrip(SubSeq(s, 1, Len(s) - 1)) ELSE s

Strip(s) == RStrip(LStrip(s))

\* a ^ b on non-negative integers
RECURSIVE Xor(_, _)
Xor(a, b) ==
    IF a = 0 THEN b
    ELSE IF b = 0 THEN a
    ELSE (((a % 2) + (b % 2)) % 2) + (2 * Xor(a \div 2, b \div 2))

\* n.to_bytes(2, "big") and n.to_bytes(2, "little"), defined for n <= 65535
\* (Python raises OverflowError above that)
ToBytesBig(n) == <<n \div 256, n % 256>>
ToBytesLittle(n) == <<n % 256, n \div 256>>

(***************************************************************************)
(* CRC-16/MODBUS, ate_command_sender.crc16_modbus.                         *)
(***************************************************************************)
CRC_INIT == 65535     \* 0xFFFF
CRC_POLY == 40961     \* 0xA001

\* the inner loop: for _ in range(8)
\* (the test on the new register value makes TLC compute it before the
\* next iteration)
RECURSIVE CrcShift(_, _)
CrcShift(crc, n) ==
    IF n = 0 THEN crc
    ELSE LET shifted == IF crc % 2 = 1 THEN Xor(crc \div 2, CRC_POLY)
                                       ELSE crc \div 2
         IN  IF shifted >= 0 THEN CrcShift(shifted, n - 1) ELSE -1

\* the outer loop over data[lo..hi], the first half before the second
\* (splitting the range keeps the evaluation shallow on long inputs)
RECURSIVE CrcRange(_, _, _, _)
CrcRange(crc, data, lo, hi) ==
    IF lo > hi THEN crc
    ELSE IF lo = hi THEN CrcShift(Xor(crc, data[lo]), 8)
    ELSE LET mid  == (lo + hi) \div 2
             left == CrcRange(crc, data, lo, mid)
         IN  IF left >= 0 THEN CrcRange(left, data, mid + 1, hi) ELSE -1

\* the outer loop: for byte in data
CrcFold(crc, data) == CrcRange(crc, data, 1, Len(data))

\* A plausible slip: the register starts at 0 (CRC-16/ARC) instead of 0xFFFF.
crc16_modbus_zero_init(data) == CrcFold(0, data)

crc16_modbus(data) == CrcFold(CRC_INIT, data)

(***************************************************************************)
(* Frame builders.                                                         *)
(***************************************************************************)
OP_0D == 13

\* automated_suite.build_frame: no checksum
suite_build_frame(o, p) ==
    LET pre == IF o = OP_0D THEN <<85>> ELSE <<85, 170>>
        ln  == IF o = OP_0D THEN ToBytesBig(Len(p)) ELSE ToBytesLittle(Len(p))
        fr  == pre \o <<o>> \o ln \o p
    IN  IF o = OP_0D THEN fr \o CR ELSE fr

\* A plausible slip: the length field little-endian for every opcode.
build_frame_len_little(o, p) ==
    LET pre == IF o = OP_0D THEN <<85>> ELSE <<85, 170>>
        len_bytes == ToBytesLittle(Len(p))
    IN  IF o = OP_0D
        THEN LET data_for_crc == <<o>> \o len_bytes \o p
             IN  pre \o data_for_crc
                     \o ToBytesLittle(crc16_modbus(data_for_crc)) \o CR
        ELSE pre \o <<o>> \o len_bytes \o p

\* A plausible slip: the checksum appended big-endian.
build_frame_crc_big(o, p) ==
    LET pre == IF o = OP_0D THEN <<85>> ELSE <<85, 170>>
    IN  IF o = OP_0D
        THEN LET data_for_crc == <<o>> \o ToBytesBig(Len(p)) \o p
             IN  pre \o data_for_crc \o ToBytesBig(crc16_modbus(data_for_crc)) \o CR
        ELSE pre \o <<o>> \o ToBytesLittle(Len(p)) \o p

\* ate_command_sender.build_frame
build_frame(o, p) ==
    LET pre == IF o = OP_0D THEN <<85>> ELSE <<85, 170>>
    IN  IF o = OP_0D
        THEN LET len_bytes    == ToBytesBig(Len(p))
                 data_for_crc == <<o>> \o len_bytes \o p
                 crc_val      == crc16_modbus(data_for_crc)
                 crc_bytes    == ToBytesLittle(crc_val)
             IN  pre \o data_for_crc \o crc_bytes \o CR
        ELSE LET len_bytes == ToBytesLittle(Len(p))
             IN  pre \o <<o>> \o len_bytes \o p

(***************************************************************************)
(* Response classification.                                                *)
(***************************************************************************)
\* A plausible slip: the "if echo:" guard is missing.
run_test_accepts_unguarded(rx) ==
    LET response_text == Strip(rx)
    IN  ~Contains(PreambleError, response_text)
        /\ ~Contains(CmdError, response_text)

\* automated_suite.run_test, the value it returns for the response read
run_test_accepts(rx) ==
    IF rx # <<>>
    THEN LET response_text == Strip(rx)
         IN  ~Contains(PreambleError, response_text)
             /\ ~Contains(CmdError, response_text)
    ELSE FALSE

\* superfuzzer_fixed_gemini2.fuzz_opcode_0D_2_bytes, the branch taken
fuzz_0D_classify(rx) ==
    IF rx # <<>>
    THEN LET response_text == Strip(rx)
         IN  IF Contains(PreambleError, response_text) THEN "PROTOCOL_ERROR"
             ELSE IF Contains(CmdError, response_text) THEN "COMMAND_ERROR"
             ELSE "ACCEPTED"
    ELSE "SILENCE"

(***************************************************************************)
(* Inputs of the pure functions.                                           *)
(***************************************************************************)
MaxPayloadLen == 3

\* opcodes the scripts send: 0x0D, 0x08, 0xD8, 0xD9; the neighbours of 0x0D
\* and the ends of the byte range
Opcodes == {13, 8, 216, 217, 0, 12, 14, 255}

ByteAlphabet == {0, 1, 65, 255}

\* b"123456789", the standard CRC check input
Check9 == <<49, 50, 51, 52, 53, 54, 55, 56, 57>>

SeqsUpTo(S, n) == UNION {[1..k -> S] : k \in 0..n}

\* a payload whose length needs both bytes of the length field: 258 = 0x0102
LongPayload == [k \in 1..258 |-> 65]

Payloads ==
    SeqsUpTo(ByteAlphabet, MaxPayloadLen) \cup {Check9, <<0, 65, 1>>, LongPayload}

RespPrefix == {<<>>, <<32>>, <<13, 10>>, <<120>>}
RespBody ==
    {<<>>, PreambleError, CmdError,
     PreambleError \o <<32>> \o CmdError,
     CmdError \o <<13, 10>> \o PreambleError,
     <<79, 75>>,                                               \* "OK"
     SubSeq(PreambleError, 1, Len(PreambleError) - 1),         \* "Preamble Erro"
     <<99, 109, 100, 32, 101, 114, 114, 111, 114>>}            \* "cmd error"
RespSuffix == {<<>>, <<13, 10>>, <<33>>}

\* raw responses the device may produce within one read window
Responses == {p \o b \o s : p \in RespPrefix, b \in RespBody, s \in RespSuffix}

(***************************************************************************)
(* Idle values: the variables of a program that a specification does not   *)
(* run.                                                                    *)
(***************************************************************************)
CodecIdle ==
    /\ op = 0 /\ payload = <<>> /\ frame = <<>> /\ crcOut = -1
    /\ codecPc = "idle"

ClassIdle ==
    /\ response = <<>> /\ classification = "NONE" /\ runTestResult = FALSE
    /\ classPc = "idle"

SessIdle ==
    /\ prog = "none" /\ pc = "idle" /\ buf = <<>> /\ elapsed = 0
    /\ bootResult = "NONE" /\ keysWritten = 0 /\ framesWritten = 0
    /\ lastWrite = <<>> /\ module = 0 /\ cand = 0 /\ echo = <<>>
    /\ suiteResult = -1 /\ closed = FALSE
    /\ promptSeen = FALSE /\ readySeen = FALSE /\ acceptedSeen = FALSE
    /\ winModule = 0 /\ winCand = 0 /\ invoked = {}

ScanIdle ==
    /\ scanner = "none" /\ profile = "none" /\ scanPc = "idle" /\ addr = 0
    /\ register_map = <<>> /\ pending = <<>> /\ cmdsWritten = 0
    /\ lastCmd = <<>> /\ savedDump = "NONE"

DiffIdle ==
    /\ stage = 0 /\ day_map = <<>> /\ other_map = <<>>
    /\ static_regs = <<>> /\ dynamic_regs = <<>> /\ changes = {}
    /\ noChangesPrinted = FALSE /\ diffPc = "idle"

SfIdle ==
    /\ sfMode = "none" /\ sfStrategy = "none" /\ now = 0 /\ last_activity = 0
    /\ boot_ready = FALSE /\ bsPc = "idle" /\ bsBuf = <<>> /\ key_sent = FALSE
    /\ deadline = 0 /\ prPc = "idle" /\ fmPc = "idle" /\ fmWake = 0
    /\ dtr = TRUE /\ stPc = "idle" /\ readers = {} /\ sfWrites = <<>>
    /\ delivered = 0 /\ eof = FALSE /\ sfPromptSeen = FALSE
    /\ freezeSeen = FALSE

BldIdle ==
    /\ builder = "none" /\ bOp = 0 /\ bPayload = <<>> /\ bFrame = <<>>
    /\ bRef = <<>> /\ bPc = "idle"

DiscIdle ==
    /\ dLength = 0 /\ dPhase = "none" /\ dIdx = 0 /\ dCrc = 0
    /\ dAccepted = FALSE /\ dFrame = <<>> /\ dResp = <<>>
    /\ dReport = <<>> /\ dPc = "idle"

EntryIdle ==
    /\ eMode = "none" /\ ePc = "idle" /\ eBuf = <<>> /\ eElapsed = 0
    /\ eKeys = 0 /\ eLastKey = <<>> /\ eResult = "NONE"
    /\ ePromptSeen = FALSE /\ eConfirmSeen = FALSE /\ eClosed = FALSE

PwIdle ==
    /\ pwScript = "none" /\ pwChannel = "none" /\ pwPc = "idle"
    /\ pwBuf = <<>> /\ pwElapsed = 0 /\ pwWritten = <<>> /\ pwEmpty = FALSE

FeIdle ==
    /\ feOp = "none" /\ feAddr = 0 /\ feArg = 0 /\ feReads = <<>>
    /\ feOriginal = -1 /\ feCmds = <<>> /\ fePc = "idle"

RwIdle ==
    /\ rwPc = "idle" /\ rwStage = 1 /\ rwBuf = <<>> /\ rwT = 0
    /\ rwAll = <<>> /\ rwChunks = 0

TwIdle ==
    /\ twScript = "tweak" /\ twReg = 0 /\ twPc = "idle" /\ twBuf = <<>>
    /\ twT = 0 /\ twKeys = 0 /\ twConfirmSeen = FALSE /\ twWrites = <<>>
    /\ twClosed = FALSE

SwIdle ==
    /\ swMode = "raw" /\ swVal = 0 /\ swFreeze = 0 /\ swHist = <<>>
    /\ swSent = <<>> /\ swPc = "idle"

DbIdle ==
    /\ dbK = 0 /\ dbLength = 0 /\ dbPc = "idle" /\ dbCalls = 0
    /\ dbFirst = <<>> /\ dbLast = <<>>

SpIdle ==
    /\ spScript = "sender" /\ spPc = "idle" /\ spBuf = <<>> /\ spT = 0
    /\ spStream = <<>> /\ spDataReads = 0 /\ spGap = FALSE

ExtIdle == SfIdle /\ BldIdle /\ DiscIdle /\ EntryIdle
    /\ PwIdle
    /\ FeIdle
    /\ RwIdle
    /\ TwIdle
    /\ SwIdle
    /\ DbIdle
    /\ SpIdle

(***************************************************************************)
(* SpecCodec: crc16_modbus and build_frame applied to every input.         *)
(***************************************************************************)
CodecInit ==
    /\ op \in Opcodes
    /\ payload \in Payloads
    /\ frame = <<>>
    /\ crcOut = -1
    /\ codecPc = "start"

\* crc_val = crc16_modbus(data)
Checksum ==
    /\ codecPc = "start"
    /\ crcOut' = crc16_modbus(payload)
    /\ codecPc' = "crc"
    /\ UNCHANGED <<op, payload, frame, classVars, sessVars, obsVars, scanVars, diffVars, extVars>>

\* frame = build_frame(op, payload)
Encode ==
    /\ codecPc = "crc"
    /\ frame' = build_frame(op, payload)
    /\ codecPc' = "done"
    /\ UNCHANGED <<op, payload, crcOut, classVars, sessVars, obsVars, scanVars, diffVars, extVars>>

InitCodec == CodecInit /\ ClassIdle /\ SessIdle /\ ScanIdle /\ DiffIdle /\ ExtIdle
NextCodec == Checksum \/ Encode
SpecCodec == InitCodec /\ [][NextCodec]_vars

(***************************************************************************)
(* SpecClassify: the two response classifications applied to every         *)
(* response.                                                               *)
(***************************************************************************)
ClassInit ==
    /\ response \in Responses
    /\ classification = "NONE"
    /\ runTestResult = FALSE
    /\ classPc = "start"

Classify ==
    /\ classPc = "start"
    /\ classification' = fuzz_0D_classify(response)
    /\ runTestResult' = run_test_accepts(response)
    /\ classPc' = "done"
    /\ UNCHANGED <<response, codecVars, sessVars, obsVars, scanVars, diffVars, extVars>>

InitClassify == ClassInit /\ CodecIdle /\ SessIdle /\ ScanIdle /\ DiffIdle /\ ExtIdle
NextClassify == Classify
SpecClassify == InitClassify /\ [][NextClassify]_vars

(***************************************************************************)
(* A session: boot_sync, then the automated suite (automated_suite.main)   *)
(* or the single command of ate_command_sender.main.                       *)
(***************************************************************************)
READ_TIMEOUT == 3       \* UARTSession.read: timeout=1.5 s
PROMPT_TIMEOUT == 30    \* boot_sync: deadline = time.time() + 15
READY_TIMEOUT == 20     \* boot_sync: deadline = time.time() + 10

\* bound on the bytes boot_sync accumulates in one wait
MaxBuf == 16

\* what the device may deliver in one read while the prompt is awaited:
\* "Please ", "key 'y'", "\r\n"
PromptChunks == {SubSeq(PROMPT, 1, 7), SubSeq(PROMPT, 8, 14), <<13, 10>>}

\* ... and after the mode key: "Start ", "ATE", "eATE_INIT", "\r\n"
ReadyChunks ==
    {SubSeq(READY[1], 1, 6), SubSeq(READY[1], 7, 9), READY[3], <<13, 10>>}

\* responses to a command frame
SuiteResponses ==
    {<<>>,
     PreambleError \o <<13, 10>>,
     CmdError \o <<13, 10>>,
     <<79, 75, 13, 10>>,
     <<13, 10>>,
     PreambleError \o <<32>> \o CmdError}

\* UARTSession.read: the bytes that arrived, after d ticks; b'' after the
\* full timeout
sess_read(chunks) ==
    {[d |-> READ_TIMEOUT, data |-> <<>>]}
        \cup {[d |-> t, data |-> c] : t \in 0..READ_TIMEOUT, c \in chunks}

\* any(m in buf for m in READY)
AnyReady(b) == \E i \in 1..Len(READY) : Contains(READY[i], b)

\* A plausible slip: the check after the prompt wait is missing.
prompt_check_missing(b) == "key"

\* boot_sync: if PROMPT not in buf: sys.exit(1)
prompt_check(b) == IF ~Contains(PROMPT, b) THEN "exit" ELSE "key"

\* A plausible slip: a missing ready marker aborts the session.
ready_timeout_aborts == "exit"

\* boot_sync: the ready wait ran out; log.warning and fall off the function
ready_timeout_outcome == "return"

\* A plausible slip: module 3 sweeps range(0x20, 0x80).
module_range_name_inclusive(m) ==
    CASE m = 1 -> [lo |-> 0, hi |-> 15]
      [] m = 2 -> [lo |-> 0, hi |-> 256]
      [] m = 3 -> [lo |-> 32, hi |-> 128]
      [] m = 4 -> [lo |-> 0, hi |-> 256]

\* for i in range(...) of the four test modules: [lo, hi)
module_range(m) ==
    CASE m = 1 -> [lo |-> 0, hi |-> 15]
      [] m = 2 -> [lo |-> 0, hi |-> 256]
      [] m = 3 -> [lo |-> 32, hi |-> 127]
      [] m = 4 -> [lo |-> 0, hi |-> 256]

\* b'\x00' * i
Zeros(i) == [k \in 1..i |-> 0]

\* A plausible slip: the value module sends the same value every time.
module_payload_fixed_value(m, i) ==
    CASE m = 1 -> <<0, 65>> \o Zeros(i)
      [] m = 2 -> <<0, 65>> \o <<1>>
      [] m = 3 -> <<0>> \o <<i>> \o <<1>>
      [] m = 4 -> <<i>> \o <<65>> \o <<1>>

\* the payload a module builds for loop index i
module_payload(m, i) ==
    CASE m = 1 -> <<0, 65>> \o Zeros(i)
      [] m = 2 -> <<0, 65>> \o <<i>>
      [] m = 3 -> <<0>> \o <<i>> \o <<1>>
      [] m = 4 -> <<i>> \o <<65>> \o <<1>>

\* A plausible slip: main() does not return after a module's success.
main_after_module_no_return(m, ok) ==
    IF m < 4 THEN [pc |-> "module_start", module |-> m + 1, result |-> -1]
    ELSE [pc |-> "done", module |-> m, result |-> IF ok THEN m ELSE 0]

\* automated_suite.main: what follows a module's return value
main_after_module(m, ok) ==
    IF ok THEN [pc |-> "done", module |-> m, result |-> m]
    ELSE IF m < 4 THEN [pc |-> "module_start", module |-> m + 1, result |-> -1]
    ELSE [pc |-> "done", module |-> m, result |-> 0]

SessInit ==
    /\ prog \in {"suite", "sender"}
    /\ pc = "prompt_wait"
    /\ buf = <<>> /\ elapsed = 0
    /\ bootResult = "NONE" /\ keysWritten = 0 /\ framesWritten = 0
    /\ lastWrite = <<>> /\ module = 0 /\ cand = 0 /\ echo = <<>>
    /\ suiteResult = -1 /\ closed = FALSE
    /\ promptSeen = FALSE /\ readySeen = FALSE /\ acceptedSeen = FALSE
    /\ winModule = 0 /\ winCand = 0 /\ invoked = {}

\* boot_sync: while PROMPT not in buf and time.time() < deadline:
\*                buf += await sess.read()
PromptRead ==
    /\ pc = "prompt_wait"
    /\ ~Contains(PROMPT, buf) /\ elapsed < PROMPT_TIMEOUT
    /\ \E r \in sess_read(PromptChunks) :
          /\ Len(buf) + Len(r.data) <= MaxBuf
          /\ buf' = buf \o r.data
          /\ elapsed' = elapsed + r.d
          /\ promptSeen' = (promptSeen \/ Contains(PROMPT, buf \o r.data))
    /\ UNCHANGED <<prog, pc, bootResult, keysWritten, framesWritten, lastWrite,
                   module, cand, echo, suiteResult, closed>>
    /\ UNCHANGED <<readySeen, acceptedSeen, winModule, winCand, invoked>>
    /\ UNCHANGED <<codecVars, classVars, scanVars, diffVars, extVars>>

\* boot_sync: the wait is over and PROMPT is not in buf: sys.exit(1)
PromptFatal ==
    /\ pc = "prompt_wait"
    /\ ~(~Contains(PROMPT, buf) /\ elapsed < PROMPT_TIMEOUT)
    /\ prompt_check(buf) = "exit"
    /\ bootResult' = "FATAL"
    /\ pc' = "fatal"
    /\ UNCHANGED <<prog, buf, elapsed, keysWritten, framesWritten, lastWrite,
                   module, cand, echo, suiteResult, closed>>
    /\ UNCHANGED <<obsVars, codecVars, classVars, scanVars, diffVars, extVars>>

\* boot_sync: await sess.write(b"y\r"); buf = b""; deadline = time.time() + 10
SendKey ==
    /\ pc = "prompt_wait"
    /\ ~(~Contains(PROMPT, buf) /\ elapsed < PROMPT_TIMEOUT)
    /\ prompt_check(buf) = "key"
    /\ keysWritten' = keysWritten + 1
    /\ lastWrite' = MODE_KEY
    /\ buf' = <<>>
    /\ elapsed' = 0
    /\ pc' = "ready_wait"
    /\ UNCHANGED <<prog, bootResult, framesWritten, module, cand, echo,
                   suiteResult, closed>>
    /\ UNCHANGED <<obsVars, codecVars, classVars, scanVars, diffVars, extVars>>

\* boot_sync: while time.time() < deadline: buf += await sess.read()
\*                if any(m in buf for m in READY): return
ReadyRead ==
    /\ pc = "ready_wait"
    /\ elapsed < READY_TIMEOUT
    /\ \E r \in sess_read(ReadyChunks) :
          LET nb == buf \o r.data IN
          /\ Len(nb) <= MaxBuf
          /\ readySeen' = (readySeen \/ AnyReady(nb))
          /\ IF AnyReady(nb)
             THEN /\ bootResult' = "READY"
                  /\ pc' = "booted"
                  /\ buf' = <<>>
                  /\ elapsed' = 0
             ELSE /\ buf' = nb
                  /\ elapsed' = elapsed + r.d
                  /\ UNCHANGED <<bootResult, pc>>
    /\ UNCHANGED <<prog, keysWritten, framesWritten, lastWrite, module, cand,
                   echo, suiteResult, closed>>
    /\ UNCHANGED <<promptSeen, acceptedSeen, winModule, winCand, invoked>>
    /\ UNCHANGED <<codecVars, classVars, scanVars, diffVars, extVars>>

\* boot_sync: the ready wait ran out: "continuing anyway"
ReadyTimeout ==
    /\ pc = "ready_wait"
    /\ ~(elapsed < READY_TIMEOUT)
    /\ IF ready_timeout_outcome = "return"
       THEN bootResult' = "DEGRADED" /\ pc' = "booted"
       ELSE bootResult' = "FATAL" /\ pc' = "fatal"
    /\ buf' = <<>>
    /\ elapsed' = 0
    /\ UNCHANGED <<prog, keysWritten, framesWritten, lastWrite, module, cand,
                   echo, suiteResult, closed>>
    /\ UNCHANGED <<obsVars, codecVars, classVars, scanVars, diffVars, extVars>>

\* automated_suite.main: await asyncio.sleep(0.5); await sess.read()
SuiteDrain ==
    /\ pc = "booted" /\ prog = "suite"
    /\ \E r \in sess_read(SuiteResponses) : TRUE
    /\ module' = 1
    /\ pc' = "module_start"
    /\ UNCHANGED <<prog, buf, elapsed, bootResult, keysWritten, framesWritten,
                   lastWrite, cand, echo, suiteResult, closed>>
    /\ UNCHANGED <<obsVars, codecVars, classVars, scanVars, diffVars, extVars>>

\* test_payload_length .. test_group_ids: entry, up to the loop
ModuleStart ==
    /\ pc = "module_start"
    /\ invoked' = invoked \cup {module}
    /\ cand' = module_range(module).lo
    /\ pc' = "probe_write"
    /\ UNCHANGED <<prog, buf, elapsed, bootResult, keysWritten, framesWritten,
                   lastWrite, module, echo, suiteResult, closed>>
    /\ UNCHANGED <<promptSeen, readySeen, acceptedSeen, winModule, winCand>>
    /\ UNCHANGED <<codecVars, classVars, scanVars, diffVars, extVars>>

\* run_test: frame = build_frame(0x0D, payload); await sess.write(frame)
ProbeWrite ==
    /\ pc = "probe_write"
    /\ lastWrite' = suite_build_frame(OP_0D, module_payload(module, cand))
    /\ framesWritten' = framesWritten + 1
    /\ pc' = "probe_read"
    /\ UNCHANGED <<prog, buf, elapsed, bootResult, keysWritten, module, cand,
                   echo, suiteResult, closed>>
    /\ UNCHANGED <<obsVars, codecVars, classVars, scanVars, diffVars, extVars>>

\* the claims' reading of a response: non-empty, neither error literal
AcceptedResponse(r) ==
    r # <<>> /\ ~Contains(PreambleError, r) /\ ~Contains(CmdError, r)

\* run_test: await asyncio.sleep(1.1); echo = await sess.read(); the result
\* goes back through the module's loop to main()
ProbeRead ==
    /\ pc = "probe_read"
    /\ \E r \in sess_read(SuiteResponses) :
          LET ok   == run_test_accepts(r.data)
              more == cand + 1 < module_range(module).hi
              nxt  == main_after_module(module, ok)
          IN
          /\ echo' = r.data
          /\ IF ~ok /\ more
             THEN /\ cand' = cand + 1
                  /\ pc' = "probe_write"
                  /\ UNCHANGED <<module, suiteResult>>
             ELSE /\ pc' = nxt.pc
                  /\ module' = nxt.module
                  /\ suiteResult' = nxt.result
                  /\ UNCHANGED cand
          /\ acceptedSeen' = (acceptedSeen \/ AcceptedResponse(r.data))
          /\ IF ~acceptedSeen /\ AcceptedResponse(r.data)
             THEN /\ winModule' = module
                  /\ winCand' = (cand - module_range(module).lo) + 1
             ELSE UNCHANGED <<winModule, winCand>>
    /\ UNCHANGED <<prog, buf, elapsed, bootResult, keysWritten, framesWritten,
                   lastWrite, closed>>
    /\ UNCHANGED <<promptSeen, readySeen, invoked>>
    /\ UNCHANGED <<codecVars, classVars, scanVars, diffVars, extVars>>

\* ate_command_sender.main: frame = build_frame(0x0D, b'\x00\x41\x01');
\* send_and_get_response: await sess.write(frame)
SenderSend ==
    /\ pc = "booted" /\ prog = "sender"
    /\ lastWrite' = build_frame(OP_0D, <<0, 65, 1>>)
    /\ framesWritten' = framesWritten + 1
    /\ pc' = "recv"
    /\ UNCHANGED <<prog, buf, elapsed, bootResult, keysWritten, module, cand,
                   echo, suiteResult, closed>>
    /\ UNCHANGED <<obsVars, codecVars, classVars, scanVars, diffVars, extVars>>

\* send_and_get_response: await asyncio.sleep(1.1); response = await sess.read()
SenderRecv ==
    /\ pc = "recv"
    /\ \E r \in sess_read(SuiteResponses) : echo' = r.data
    /\ pc' = "done"
    /\ UNCHANGED <<prog, buf, elapsed, bootResult, keysWritten, framesWritten,
                   lastWrite, module, cand, suiteResult, closed>>
    /\ UNCHANGED <<obsVars, codecVars, classVars, scanVars, diffVars, extVars>>

\* main: finally: await sess.close()  (also on the SystemExit of sys.exit)
Close ==
    /\ pc \in {"done", "fatal"}
    /\ closed' = TRUE
    /\ pc' = "exited"
    /\ UNCHANGED <<prog, buf, elapsed, bootResult, keysWritten, framesWritten,
                   lastWrite, module, cand, echo, suiteResult>>
    /\ UNCHANGED <<obsVars, codecVars, classVars, scanVars, diffVars, extVars>>

Init == SessInit /\ CodecIdle /\ ClassIdle /\ ScanIdle /\ DiffIdle /\ ExtIdle
Next ==
    \/ PromptRead \/ PromptFatal \/ SendKey \/ ReadyRead \/ ReadyTimeout
    \/ SuiteDrain \/ ModuleStart \/ ProbeWrite \/ ProbeRead
    \/ SenderSend \/ SenderRecv \/ Close
Spec == Init /\ [][Next]_vars

(***************************************************************************)
(* The register scan: master_analyzer.scan_and_save (pattern matching in a *)
(* one-second window) and day_night_mapper.scan_and_save (echo read, then  *)
(* value read).                                                            *)
(***************************************************************************)
NUM_ADDRS == 256        \* for addr in range(256)
SCAN_WINDOW == 10       \* deadline = time.time() + 1, in read timeouts of 0.1 s

\* "NO_RESPONSE"
NO_RESPONSE == <<78, 79, 95, 82, 69, 83, 80, 79, 78, 83, 69>>

\* A plausible slip: the format specifier is 02X.
HexDigitUpper(d) == IF d < 10 THEN 48 + d ELSE 55 + d

\* one digit of the x presentation type
HexDigit(d) == IF d < 10 THEN 48 + d ELSE 87 + d

RECURSIVE HexDigits(_)
HexDigits(n) ==
    IF n < 16 THEN <<HexDigit(n)>>
    ELSE HexDigits(n \div 16) \o <<HexDigit(n % 16)>>

\* f"{n:02x}"
format_02x(n) ==
    LET d == HexDigits(n) IN IF Len(d) < 2 THEN <<48>> \o d ELSE d

\* A plausible slip: the command is built with the write prefix "01".
read_command_as_write(a) == <<48, 49>> \o format_02x(a) \o <<48, 48>> \o <<13>>

\* f"00{hex_addr}00\r"
read_command(a) == <<48, 48>> \o format_02x(a) \o <<48, 48>> \o <<13>>

\* f"0x{hex_addr}"
map_key(a) == <<48, 120>> \o format_02x(a)

\* data.decode('utf-8', 'ignore') on input whose bytes below 0x80 are text
\* and whose other bytes are invalid UTF-8
decode_ignore(b) == SelectSeq(b, LAMBDA c : c < 128)

\* re.IGNORECASE on ASCII letters
Lower(c) == IF c >= 65 /\ c <= 90 THEN c + 32 ELSE c
LowerSeq(t) == [i \in 1..Len(t) |-> Lower(t[i])]

IsHexChar(c) ==
    (c >= 48 /\ c <= 57) \/ (Lower(c) >= 97 /\ Lower(c) <= 102)

\* \s of a str pattern, on ASCII
IsReSpace(c) == c \in {9, 10, 11, 12, 13, 28, 29, 30, 31, 32}

\* [0-9a-fA-F]+ from position i: the position after the longest run
RECURSIVE HexRunEnd(_, _)
HexRunEnd(t, i) ==
    IF i <= Len(t) /\ IsHexChar(t[i]) THEN HexRunEnd(t, i + 1) ELSE i

\* \s* from position i: the position after the longest run
RECURSIVE SpaceRunEnd(_, _)
SpaceRunEnd(t, i) ==
    IF i <= Len(t) /\ IsReSpace(t[i]) THEN SpaceRunEnd(t, i + 1) ELSE i

\* t has the literal lit (lower case) at position i, ignoring case
LitAt(t, i, lit) ==
    /\ i + Len(lit) - 1 <= Len(t)
    /\ LowerSeq(SubSeq(t, i, i + Len(lit) - 1)) = lit

\* r"Addr:0x([0-9a-fA-F]+),\s*Data:(0x[0-9a-fA-F]+)" matched at position i:
\* the span of group 2, or <<>> when there is no match at i
MatchAt(t, i) ==
    IF ~LitAt(t, i, <<97, 100, 100, 114, 58, 48, 120>>) THEN <<>>
    ELSE LET h1 == HexRunEnd(t, i + 7) IN
         IF h1 = i + 7 \/ ~LitAt(t, h1, <<44>>) THEN <<>>
         ELSE LET d == SpaceRunEnd(t, h1 + 1) IN
              IF ~LitAt(t, d, <<100, 97, 116, 97, 58, 48, 120>>) THEN <<>>
              ELSE LET h2 == HexRunEnd(t, d + 7) IN
                   IF h2 = d + 7 THEN <<>> ELSE <<d + 5, h2 - 1>>

\* pattern.search(read_buffer): match.group(2) of the leftmost match, or
\* <<>> for None
pattern_search(t) ==
    LET hits == {i \in 1..Len(t) : MatchAt(t, i) # <<>>} IN
    IF hits = {} THEN <<>>
    ELSE LET i == CHOOSE j \in hits : \A k \in hits : j <= k
             g == MatchAt(t, i)
         IN  SubSeq(t, g[1], g[2])

\* the data of the read results nobody consumed, as the next read finds it
RECURSIVE Concat(_)
Concat(ss) == IF ss = <<>> THEN <<>> ELSE Head(ss) \o Concat(Tail(ss))

\* master_analyzer.scan_and_save, the window of one address: reads is the
\* sequence of read_raw results to come (<<>> is a timeout, 0.1 s each; past
\* its end every read times out), t the time spent
RECURSIVE master_window(_, _, _)
master_window(reads, read_buffer, t) ==
    IF ~(t < SCAN_WINDOW) \/ reads = <<>>
    THEN [found_value |-> NO_RESPONSE, rest |-> Concat(reads)]
    ELSE LET data_bytes == Head(reads) IN
         IF data_bytes = <<>>
         THEN master_window(Tail(reads), read_buffer, t + 1)
         ELSE LET nb == read_buffer \o decode_ignore(data_bytes)
                  m  == pattern_search(nb)
              IN  IF m # <<>>
                  THEN [found_value |-> m, rest |-> Concat(Tail(reads))]
                  ELSE master_window(Tail(reads), nb, t)

\* day_night_mapper.scan_and_save, one address: the echo read is dropped,
\* the second read is the value
daynight_window(reads) ==
    LET response_bytes == IF Len(reads) >= 2 THEN reads[2] ELSE <<>>
        rest == IF Len(reads) > 2 THEN Concat(SubSeq(reads, 3, Len(reads)))
                ELSE <<>>
    IN  IF response_bytes # <<>>
        THEN [found_value |-> Strip(decode_ignore(response_bytes)), rest |-> rest]
        ELSE [found_value |-> NO_RESPONSE, rest |-> rest]

\* register_map[key] = value
DictSet(m, k, v) ==
    [x \in (DOMAIN m) \cup {k} |-> IF x = k THEN v ELSE m[x]]

(***************************************************************************)
(* The device under scan.                                                  *)
(***************************************************************************)
\* the content of register a
RegValue(a) == ((a * 7) + 3) % 256

\* "Addr:0x1f, Data:0x2a\r\n"
DeviceReply(a) ==
    <<65, 100, 100, 114, 58, 48, 120>> \o format_02x(a)
        \o <<44, 32, 68, 97, 116, 97, 58, 48, 120>> \o format_02x(RegValue(a))
        \o <<13, 10>>

Upper(c) == IF c >= 97 /\ c <= 122 THEN c - 32 ELSE c

Timeouts(n) == [i \in 1..n |-> <<>>]

Kinds ==
    {"reply", "silent", "garbage", "split", "upper", "slow", "late",
     "echo_late", "fused"}

\* the read results that follow the read command for address a
DeviceReads(kind, a) ==
    LET cmdEcho == read_command(a)
        reply   == DeviceReply(a)
    IN  CASE kind = "reply"   -> <<cmdEcho, reply>>
          [] kind = "silent"  -> <<cmdEcho>>
          [] kind = "garbage" -> <<cmdEcho, <<255, 69, 82, 82, 13, 10>> >>
          [] kind = "split"   -> <<cmdEcho \o SubSeq(reply, 1, 12),
                                   SubSeq(reply, 13, Len(reply))>>
          [] kind = "upper"   -> <<cmdEcho, [i \in 1..Len(reply) |-> Upper(reply[i])]>>
          [] kind = "slow"    -> <<cmdEcho>> \o Timeouts(4) \o <<reply>>
          [] kind = "late"    -> <<cmdEcho>> \o Timeouts(SCAN_WINDOW) \o <<reply>>
          \* the echo arrives after the first read has timed out
          [] kind = "echo_late" -> <<<<>>, cmdEcho \o reply>>
          \* echo and reply arrive together in the first read
          [] kind = "fused"   -> <<cmdEcho \o reply>>

\* every period-th address answers as k1, the others as k2
Profiles == [k1 : Kinds, k2 : {"reply", "silent"}, period : {3, 16}]

KindOf(pr, a) == IF a % pr.period = 0 THEN pr.k1 ELSE pr.k2

\* what the reads after the command for a return: bytes left over from
\* before arrive with the first of them
ReadsFor(pr, a, left) ==
    LET rs == DeviceReads(KindOf(pr, a), a)
    IN  IF left = <<>> THEN rs ELSE <<left \o Head(rs)>> \o Tail(rs)

ScanInit ==
    /\ scanner \in {"master", "daynight"}
    /\ profile \in Profiles
    /\ scanPc = "write"
    /\ addr = 0
    /\ register_map = <<>>
    /\ pending = <<>>
    /\ cmdsWritten = 0
    /\ lastCmd = <<>>
    /\ savedDump = "NONE"

\* await sess.write(command_str.encode())
ScanWrite ==
    /\ scanPc = "write"
    /\ lastCmd' = read_command(addr)
    /\ cmdsWritten' = cmdsWritten + 1
    /\ scanPc' = "collect"
    /\ UNCHANGED <<scanner, profile, addr, register_map, pending, savedDump>>
    /\ UNCHANGED <<codecVars, classVars, sessVars, obsVars, diffVars, extVars>>

\* the reads of one address, register_map[f"0x{hex_addr}"] = ..., and the
\* step of the for loop
ScanCollect ==
    /\ scanPc = "collect"
    /\ LET reads == ReadsFor(profile, addr, pending)
           w     == IF scanner = "master" THEN master_window(reads, <<>>, 0)
                    ELSE daynight_window(reads)
       IN  /\ register_map' = DictSet(register_map, map_key(addr), w.found_value)
           /\ pending' = w.rest
    /\ IF addr + 1 < NUM_ADDRS
       THEN addr' = addr + 1 /\ scanPc' = "write"
       ELSE addr' = addr /\ scanPc' = "save"
    /\ UNCHANGED <<scanner, profile, cmdsWritten, lastCmd, savedDump>>
    /\ UNCHANGED <<codecVars, classVars, sessVars, obsVars, diffVars, extVars>>

\* json.dump(register_map, f, indent=4, sort_keys=True)
ScanSave ==
    /\ scanPc = "save"
    /\ savedDump' = register_map
    /\ scanPc' = "saved"
    /\ UNCHANGED <<scanner, profile, addr, register_map, pending, cmdsWritten,
                   lastCmd>>
    /\ UNCHANGED <<codecVars, classVars, sessVars, obsVars, diffVars, extVars>>

InitScan == ScanInit /\ CodecIdle /\ ClassIdle /\ SessIdle /\ DiffIdle /\ ExtIdle
NextScan == ScanWrite \/ ScanCollect \/ ScanSave
SpecScan == InitScan /\ [][NextScan]_vars

(***************************************************************************)
(* The offline analyses of master_analyzer: analyze_day_night (stage 3)    *)
(* and final_analysis (stage 5), on dump files that exist.                 *)
(***************************************************************************)
\* "N/A"
NA == <<78, 47, 65>>

\* m.get(k, "N/A")
DictGet(m, k) == IF k \in DOMAIN m THEN m[k] ELSE NA

\* A plausible slip: the readable-somewhere test is left out.
analyze_day_night_unguarded(dm, nm) ==
    LET keys == {map_key(i) : i \in 0..(NUM_ADDRS - 1)}
        st   == {k \in keys : DictGet(dm, k) = DictGet(nm, k)}
    IN  [static  |-> [k \in st |-> DictGet(dm, k)],
         dynamic |-> [k \in keys \ st |->
                          [day |-> DictGet(dm, k), night |-> DictGet(nm, k)]]]

\* A plausible slip: "and" for "or" in the readable-somewhere test.
analyze_day_night_and(dm, nm) ==
    LET keys == {map_key(i) : i \in 0..(NUM_ADDRS - 1)}
        cmp  == {k \in keys :
                    DictGet(dm, k) # NO_RESPONSE /\ DictGet(nm, k) # NO_RESPONSE}
        st   == {k \in cmp : DictGet(dm, k) = DictGet(nm, k)}
    IN  [static  |-> [k \in st |-> DictGet(dm, k)],
         dynamic |-> [k \in cmp \ st |->
                          [day |-> DictGet(dm, k), night |-> DictGet(nm, k)]]]

\* analyze_day_night: the loop over range(256) that fills static_regs and
\* dynamic_regs
analyze_day_night(dm, nm) ==
    LET keys == {map_key(i) : i \in 0..(NUM_ADDRS - 1)}
        cmp  == {k \in keys :
                    DictGet(dm, k) # NO_RESPONSE \/ DictGet(nm, k) # NO_RESPONSE}
        st   == {k \in cmp : DictGet(dm, k) = DictGet(nm, k)}
    IN  [static  |-> [k \in st |-> DictGet(dm, k)],
         dynamic |-> [k \in cmp \ st |->
                          [day |-> DictGet(dm, k), night |-> DictGet(nm, k)]]]

\* final_analysis: the loop over day_map.items(); one <<addr, baseline,
\* tweak>> per line printed
final_analysis(dm, tm) ==
    {<<k, dm[k], DictGet(tm, k)>> : k \in {x \in DOMAIN dm : dm[x] # DictGet(tm, x)}}

\* the dump files: every address outside VaryAddrs holds the base entry,
\* the addresses of VaryAddrs hold any entry; "absent" is a missing key
V01 == <<48, 120, 48, 49>>      \* "0x01"
V10 == <<48, 120, 49, 48>>      \* "0x10"
V20 == <<48, 120, 50, 48>>      \* "0x20"

VaryAddrs == {1, 254}
BaseEntries == {"absent", NO_RESPONSE, V01}
VaryEntries == {"absent", NO_RESPONSE, V10, V20}

DumpOf(base, choice) ==
    LET entry(i) == IF i \in VaryAddrs THEN choice[i] ELSE base
        present  == {i \in 0..(NUM_ADDRS - 1) : entry(i) # "absent"}
        rev      == [k \in {map_key(i) : i \in present} |->
                        CHOOSE i \in present : map_key(i) = k]
    IN  [k \in DOMAIN rev |-> entry(rev[k])]

Dumps == {DumpOf(b, c) : b \in BaseEntries, c \in [VaryAddrs -> VaryEntries]}

DiffInit ==
    /\ stage \in {3, 5}
    /\ day_map \in Dumps
    /\ other_map \in Dumps
    /\ static_regs = <<>> /\ dynamic_regs = <<>> /\ changes = {}
    /\ noChangesPrinted = FALSE
    /\ diffPc = "start"

\* main: elif args.stage == 3: analyze_day_night()
AnalyzeDayNight ==
    /\ diffPc = "start" /\ stage = 3
    /\ LET r == analyze_day_night(day_map, other_map)
       IN  static_regs' = r.static /\ dynamic_regs' = r.dynamic
    /\ diffPc' = "done"
    /\ UNCHANGED <<stage, day_map, other_map, changes, noChangesPrinted>>
    /\ UNCHANGED <<codecVars, classVars, sessVars, obsVars, scanVars, extVars>>

\* main: elif args.stage == 5: final_analysis(args.tweak_reg)
FinalAnalysis ==
    /\ diffPc = "start" /\ stage = 5
    /\ changes' = final_analysis(day_map, other_map)
    /\ noChangesPrinted' = (final_analysis(day_map, other_map) = {})
    /\ diffPc' = "done"
    /\ UNCHANGED <<stage, day_map, other_map, static_regs, dynamic_regs>>
    /\ UNCHANGED <<codecVars, classVars, sessVars, obsVars, scanVars, extVars>>

InitDiff == DiffInit /\ CodecIdle /\ ClassIdle /\ SessIdle /\ ScanIdle /\ ExtIdle
NextDiff == AnalyzeDayNight \/ FinalAnalysis
SpecDiff == InitDiff /\ [][NextDiff]_vars

(***************************************************************************)
(* mbp481_superfuzzer: bootsync, printer, freeze_monitor and strategy.run  *)
(* as the tasks of one event loop.  A coroutine runs from one await to the *)
(* next without interruption; time is counted in seconds, and a sleep      *)
(* shorter than a second can end at any moment.                            *)
(***************************************************************************)
BOOTSYNC_TIMEOUT == 20
FREEZE_TIMEOUT == 5

\* bound on the clock
MaxNow == 26
\* bound on the chunks the device delivers in one run
MaxChunks == 2

\* "display Debug Info"
DebugInfo == <<100, 105, 115, 112, 108, 97, 121, 32, 68, 101, 98, 117, 103,
               32, 73, 110, 102, 111>>

\* A plausible slip: any received byte counts as the prompt.
key_prompt_search_any(b) == b # <<>>

\* KEY_PROMPT_RE.search(b):  rb"Please key '([yd])'", re.I
key_prompt_search(b) ==
    LET lb == LowerSeq(b)
        pk == LowerSeq(SubSeq(PROMPT, 1, 12))     \* "please key '"
    IN  \/ Contains(pk \o <<121, 39>>, lb)
        \/ Contains(pk \o <<100, 39>>, lb)

\* ATE_BANNER_RE.search(b):  rb"Start ATE|eATE_INIT", re.I
ate_banner_search(b) ==
    LET lb == LowerSeq(b)
    IN  Contains(LowerSeq(READY[1]), lb) \/ Contains(LowerSeq(READY[3]), lb)

\* DEBUG_OK_RE.search(b):  rb"display Debug Info", re.I
debug_ok_search(b) == Contains(LowerSeq(DebugInfo), LowerSeq(b))

\* confirm_re = ATE_BANNER_RE if mode == "ate" else DEBUG_OK_RE
confirm_search(m, b) ==
    IF m = "ate" THEN ate_banner_search(b) ELSE debug_ok_search(b)

\* send_key = b"y\r" if mode == "ate" else b"d\r"
send_key(m) == IF m = "ate" THEN <<121, 13>> ELSE <<100, 13>>

\* MemDumpStrategy.run: b"\x1B" + b"R" + b"\x00\x00\x00\x00" + b"\x00\x01" + b"\r"
memdump_frame == <<27, 82, 0, 0, 0, 0, 0, 1, 13>>

\* A plausible slip (the state before rev-7): printer starts its RX loop at once.
printer_released_at_once(ready) == TRUE

\* printer: await boot_ready.wait()
printer_released(ready) == ready

\* what the device may deliver in one read: the key prompt, the banner of
\* the selected mode, a line end
SfChunks ==
    {PROMPT, IF sfMode = "ate" THEN READY[1] ELSE DebugInfo, <<13, 10>>}

\* the results a read that completes now can have
SfReadResults ==
    IF eof THEN {<<>>}
    ELSE IF delivered < MaxChunks THEN SfChunks ELSE {}

\* A plausible slip: the monitor recovers on every pass.
freeze_due_always(t, la) == TRUE

\* freeze_monitor: time.monotonic() - sess.last_activity > FREEZE_TIMEOUT
freeze_due(t, la) == t - la > FREEZE_TIMEOUT

\* A plausible slip: the timeout path leaves the event unset.
timeout_leaves_unset == FALSE

\* bootsync, after the loop: boot_ready.set()  # let fuzzer proceed anyway
timeout_sets_ready == TRUE

\* the event loop runs its tasks: no task is inside a blocking call, and
\* gather() has not raised
LoopRuns == stPc \notin {"gen", "error"} /\ prPc # "spin"

SfInit ==
    /\ sfMode \in {"ate", "loader"}
    /\ sfStrategy \in {"memdump", "overflow0d"}
    /\ now = 0 /\ last_activity = 0
    /\ boot_ready = FALSE
    /\ bsPc = "open" /\ bsBuf = <<>> /\ key_sent = FALSE /\ deadline = 0
    /\ prPc = "wait" /\ fmPc = "wait" /\ fmWake = 0 /\ dtr = TRUE
    /\ stPc = "wait"
    /\ readers = {} /\ sfWrites = <<>> /\ delivered = 0 /\ eof = FALSE
    /\ sfPromptSeen = FALSE /\ freezeSeen = FALSE

sfOthers ==
    <<codecVars, classVars, sessVars, obsVars, scanVars, diffVars, bldVars,
      discVars, entryVars,
      pwVars,
      feVars,
      rwVars,
      twVars,
      swVars,
      dbVars,
      spVars>>

\* a task is ready to run, or sleeps for less than a second
SfReady ==
    /\ LoopRuns
    /\ \/ bsPc \in {"open", "check", "sleep"}
       \/ prPc = "wait" /\ printer_released(boot_ready)
       \/ fmPc = "wait" /\ boot_ready
       \/ fmPc = "sleep" /\ now >= fmWake
       \/ fmPc = "recover"
       \/ stPc = "wait" /\ boot_ready
       \/ stPc = "breath"

\* the clock: a second passes once every task waits for the channel, for
\* the event or for a sleep of a second
SfTick ==
    /\ bsPc # "idle"
    /\ ~SfReady
    /\ now < MaxNow
    /\ now' = now + 1
    /\ UNCHANGED <<sfMode, sfStrategy, last_activity, boot_ready, bsPc, bsBuf,
                   key_sent, deadline, prPc, fmPc, fmWake, dtr, stPc, readers,
                   sfWrites, delivered, eof, sfPromptSeen, freezeSeen>>
    /\ UNCHANGED sfOthers

\* the serial device goes away: feed_eof()
SfDisconnect ==
    /\ bsPc \notin {"idle", "open"} /\ ~eof
    /\ eof' = TRUE
    /\ UNCHANGED <<sfMode, sfStrategy, now, last_activity, boot_ready, bsPc,
                   bsBuf, key_sent, deadline, prPc, fmPc, fmWake, dtr, stPc,
                   readers, sfWrites, delivered, sfPromptSeen, freezeSeen>>
    /\ UNCHANGED sfOthers

\* bootsync: await sess.open(); buf = b""; key_sent = False;
\* deadline = time.monotonic() + BOOTSYNC_TIMEOUT
BootOpen ==
    /\ LoopRuns /\ bsPc = "open"
    /\ deadline' = now + BOOTSYNC_TIMEOUT
    /\ bsPc' = "check"
    /\ UNCHANGED <<sfMode, sfStrategy, now, last_activity, boot_ready, bsBuf,
                   key_sent, prPc, fmPc, fmWake, dtr, stPc, readers, sfWrites,
                   delivered, eof, sfPromptSeen, freezeSeen>>
    /\ UNCHANGED sfOthers

\* bootsync: while time.monotonic() < deadline: chunk = await sess.read()
BootIssueRead ==
    /\ LoopRuns /\ bsPc = "check"
    /\ now < deadline
    /\ bsPc' = "read"
    /\ readers' = readers \cup {"bootsync"}
    /\ UNCHANGED <<sfMode, sfStrategy, now, last_activity, boot_ready, bsBuf,
                   key_sent, deadline, prPc, fmPc, fmWake, dtr, stPc, sfWrites,
                   delivered, eof, sfPromptSeen, freezeSeen>>
    /\ UNCHANGED sfOthers

\* bootsync: the loop is over: logging.error(...); boot_ready.set()
BootTimeout ==
    /\ LoopRuns /\ bsPc = "check"
    /\ ~(now < deadline)
    /\ boot_ready' = (boot_ready \/ timeout_sets_ready)
    /\ bsPc' = "done"
    /\ UNCHANGED <<sfMode, sfStrategy, now, last_activity, bsBuf, key_sent,
                   deadline, prPc, fmPc, fmWake, dtr, stPc, readers, sfWrites,
                   delivered, eof, sfPromptSeen, freezeSeen>>
    /\ UNCHANGED sfOthers

\* bootsync: the read returns; the body of the loop up to return or to
\* await asyncio.sleep(0.01)
BootRead ==
    /\ LoopRuns /\ bsPc = "read"
    /\ \E chunk \in SfReadResults :
          LET nb      == bsBuf \o chunk
              sendNow == chunk # <<>> /\ ~key_sent /\ key_prompt_search(nb)
              ks      == key_sent \/ sendNow
              confirm == chunk # <<>> /\ ks /\ confirm_search(sfMode, nb)
          IN
          /\ readers' = readers \ {"bootsync"}
          /\ bsBuf' = nb
          /\ delivered' = IF chunk # <<>> THEN delivered + 1 ELSE delivered
          /\ last_activity' = IF chunk # <<>> THEN now ELSE last_activity
          /\ sfPromptSeen' = (sfPromptSeen \/ key_prompt_search(nb))
          /\ key_sent' = ks
          /\ sfWrites' = IF sendNow
                         THEN Append(sfWrites, <<"bootsync", send_key(sfMode)>>)
                         ELSE sfWrites
          /\ deadline' = IF sendNow THEN now + BOOTSYNC_TIMEOUT ELSE deadline
          /\ boot_ready' = (boot_ready \/ confirm)
          /\ bsPc' = IF confirm THEN "done" ELSE "sleep"
    /\ UNCHANGED <<sfMode, sfStrategy, now, prPc, fmPc, fmWake, dtr, stPc, eof,
                   freezeSeen>>
    /\ UNCHANGED sfOthers

\* bootsync: await asyncio.sleep(0.01) is over
BootSleep ==
    /\ LoopRuns /\ bsPc = "sleep"
    /\ bsPc' = "check"
    /\ UNCHANGED <<sfMode, sfStrategy, now, last_activity, boot_ready, bsBuf,
                   key_sent, deadline, prPc, fmPc, fmWake, dtr, stPc, readers,
                   sfWrites, delivered, eof, sfPromptSeen, freezeSeen>>
    /\ UNCHANGED sfOthers

\* printer: await boot_ready.wait() returns; data = await sess.read().  At
\* EOF the read returns b'' without suspending and the loop never yields.
PrinterStart ==
    /\ LoopRuns /\ prPc = "wait"
    /\ printer_released(boot_ready)
    /\ IF eof THEN prPc' = "spin" /\ UNCHANGED readers
       ELSE prPc' = "read" /\ readers' = readers \cup {"printer"}
    /\ UNCHANGED <<sfMode, sfStrategy, now, last_activity, boot_ready, bsPc,
                   bsBuf, key_sent, deadline, fmPc, fmWake, dtr, stPc, sfWrites,
                   delivered, eof, sfPromptSeen, freezeSeen>>
    /\ UNCHANGED sfOthers

\* printer: the read returns, the chunk is logged, the next read is issued
PrinterRead ==
    /\ LoopRuns /\ prPc = "read"
    /\ \E data \in SfReadResults :
          IF data # <<>>
          THEN /\ delivered' = delivered + 1
               /\ last_activity' = now
               /\ UNCHANGED <<prPc, readers>>
          ELSE /\ prPc' = "spin"
               /\ readers' = readers \ {"printer"}
               /\ UNCHANGED <<delivered, last_activity>>
    /\ UNCHANGED <<sfMode, sfStrategy, now, boot_ready, bsPc, bsBuf, key_sent,
                   deadline, fmPc, fmWake, dtr, stPc, sfWrites, eof,
                   sfPromptSeen, freezeSeen>>
    /\ UNCHANGED sfOthers

\* freeze_monitor: await boot_ready.wait() returns; await asyncio.sleep(1.0)
FreezeStart ==
    /\ LoopRuns /\ fmPc = "wait"
    /\ boot_ready
    /\ fmPc' = "sleep"
    /\ fmWake' = now + 1
    /\ UNCHANGED <<sfMode, sfStrategy, now, last_activity, boot_ready, bsPc,
                   bsBuf, key_sent, deadline, prPc, dtr, stPc, readers,
                   sfWrites, delivered, eof, sfPromptSeen, freezeSeen>>
    /\ UNCHANGED sfOthers

\* freeze_monitor: the sleep is over; the test; dtr = False;
\* await asyncio.sleep(0.2)  /  back to await asyncio.sleep(1.0)
FreezeCheck ==
    /\ LoopRuns /\ fmPc = "sleep"
    /\ now >= fmWake
    /\ IF freeze_due(now, last_activity)
       THEN /\ dtr' = FALSE
            /\ fmPc' = "recover"
            /\ freezeSeen' = (boot_ready /\ now - last_activity > FREEZE_TIMEOUT)
            /\ UNCHANGED fmWake
       ELSE /\ fmWake' = now + 1
            /\ UNCHANGED <<dtr, fmPc, freezeSeen>>
    /\ UNCHANGED <<sfMode, sfStrategy, now, last_activity, boot_ready, bsPc,
                   bsBuf, key_sent, deadline, prPc, stPc, readers, sfWrites,
                   delivered, eof, sfPromptSeen>>
    /\ UNCHANGED sfOthers

\* freeze_monitor: dtr = True; sess.last_activity = time.monotonic();
\* await asyncio.sleep(1.0)
FreezeRecover ==
    /\ LoopRuns /\ fmPc = "recover"
    /\ dtr' = TRUE
    /\ last_activity' = now
    /\ fmPc' = "sleep"
    /\ fmWake' = now + 1
    /\ UNCHANGED <<sfMode, sfStrategy, now, boot_ready, bsPc, bsBuf, key_sent,
                   deadline, prPc, stPc, readers, sfWrites, delivered, eof,
                   sfPromptSeen, freezeSeen>>
    /\ UNCHANGED sfOthers

\* MemDumpStrategy.run / Overflow0DStrategy.run: await self.boot_ready.wait()
\* returns.  memdump: await asyncio.sleep(0.1).  overflow0d: the call
\* gen_de_bruijn(4096), which builds the de Bruijn sequence of order 26 over
\* 26 letters (26**26 elements) before it slices: the call does not return
\* and, being synchronous, keeps the event loop from running any task.
StrategyStart ==
    /\ LoopRuns /\ stPc = "wait"
    /\ boot_ready
    /\ stPc' = IF sfStrategy = "memdump" THEN "breath" ELSE "gen"
    /\ UNCHANGED <<sfMode, sfStrategy, now, last_activity, boot_ready, bsPc,
                   bsBuf, key_sent, deadline, prPc, fmPc, fmWake, dtr, readers,
                   sfWrites, delivered, eof, sfPromptSeen, freezeSeen>>
    /\ UNCHANGED sfOthers

\* MemDumpStrategy.run: frame = ...; await self.sess.write(frame)
MemDumpWrite ==
    /\ LoopRuns /\ stPc = "breath"
    /\ sfWrites' = Append(sfWrites, <<"strategy", memdump_frame>>)
    /\ last_activity' = now
    /\ stPc' = "done"
    /\ UNCHANGED <<sfMode, sfStrategy, now, boot_ready, bsPc, bsBuf, key_sent,
                   deadline, prPc, fmPc, fmWake, dtr, readers, delivered, eof,
                   sfPromptSeen, freezeSeen>>
    /\ UNCHANGED sfOthers

\* gen_de_bruijn runs out of memory: MemoryError leaves strategy.run,
\* gather() raises in main() and asyncio.run cancels the other tasks
GenFails ==
    /\ stPc = "gen"
    /\ stPc' = "error"
    /\ bsPc' = IF bsPc = "done" THEN "done" ELSE "cancelled"
    /\ prPc' = "cancelled"
    /\ fmPc' = "cancelled"
    /\ readers' = {}
    /\ UNCHANGED <<sfMode, sfStrategy, now, last_activity, boot_ready, bsBuf,
                   key_sent, deadline, fmWake, dtr, sfWrites, delivered, eof,
                   sfPromptSeen, freezeSeen>>
    /\ UNCHANGED sfOthers

InitSF ==
    /\ SfInit /\ BldIdle /\ DiscIdle /\ EntryIdle
    /\ CodecIdle /\ ClassIdle /\ SessIdle /\ ScanIdle /\ DiffIdle
    /\ PwIdle
    /\ FeIdle
    /\ RwIdle
    /\ TwIdle
    /\ SwIdle
    /\ DbIdle
    /\ SpIdle
NextSF ==
    \/ SfTick \/ SfDisconnect
    \/ BootOpen \/ BootIssueRead \/ BootTimeout \/ BootRead \/ BootSleep
    \/ PrinterStart \/ PrinterRead
    \/ FreezeStart \/ FreezeCheck \/ FreezeRecover
    \/ StrategyStart \/ MemDumpWrite \/ GenFails
SpecSF == InitSF /\ [][NextSF]_vars

\* The run with the strategy memdump, under the scheduling of the event
\* loop: time passes, and a task that can run is run.  A read completes on
\* its own only at end of file; whether the device sends anything is not
\* for the program to decide.
InitSFMemDump == InitSF /\ sfStrategy = "memdump"

NextSFMemDump ==
    \/ SfTick \/ SfDisconnect
    \/ BootOpen \/ BootIssueRead \/ BootTimeout \/ BootRead \/ BootSleep
    \/ PrinterStart \/ PrinterRead
    \/ FreezeStart \/ FreezeCheck \/ FreezeRecover
    \/ StrategyStart \/ MemDumpWrite

BootSyncRuns ==
    BootOpen \/ BootIssueRead \/ BootTimeout \/ BootSleep \/ (eof /\ BootRead)
PrinterRuns == PrinterStart \/ (eof /\ PrinterRead)
FreezeMonitorRuns == FreezeStart \/ FreezeCheck \/ FreezeRecover
StrategyRuns == StrategyStart \/ MemDumpWrite

SpecSFFair ==
    /\ InitSFMemDump /\ [][NextSFMemDump]_vars
    /\ WF_vars(SfTick)
    /\ WF_vars(BootSyncRuns) /\ WF_vars(PrinterRuns)
    /\ WF_vars(FreezeMonitorRuns) /\ WF_vars(StrategyRuns)

(***************************************************************************)
(* The frame builders of the other scripts, and each builder applied to    *)
(* the same arguments as ate_command_sender.build_frame.                   *)
(***************************************************************************)
\* superfuzzer_fixed.build_frame: ln = len(payload).to_bytes(2, "little")
fixed_build_frame(o, p) ==
    LET pre   == IF o = OP_0D THEN <<85>> ELSE <<85, 170>>
        ln    == ToBytesLittle(Len(p))
        frame0 == pre \o <<o>> \o ln \o p
    IN  IF o = OP_0D THEN frame0 \o CR ELSE frame0

\* superfuzzer_fixed_gemini.build_frame: ln = len(payload).to_bytes(2, "big")
gemini_build_frame(o, p) ==
    LET pre   == IF o = OP_0D THEN <<85>> ELSE <<85, 170>>
        ln    == ToBytesBig(Len(p))
        frame0 == pre \o <<o>> \o ln \o p
    IN  IF o = OP_0D THEN frame0 \o CR ELSE frame0

\* superfuzzer_fixed_gemini2.build_frame
gemini2_build_frame(o, p) ==
    LET pre   == IF o = OP_0D THEN <<85>> ELSE <<85, 170>>
        ln    == IF o = OP_0D THEN ToBytesBig(Len(p)) ELSE ToBytesLittle(Len(p))
        frame0 == pre \o <<o>> \o ln \o p
    IN  IF o = OP_0D THEN frame0 \o CR ELSE frame0

\* mbp481_crc_discovery_fuzzer.PATTERN: A..Z, a..z, 0..9
PATTERN ==
    [i \in 1..62 |-> IF i <= 26 THEN 64 + i
                     ELSE IF i <= 52 THEN 96 + (i - 26) ELSE 47 + (i - 52)]

\* payload = PATTERN[:length]
pattern_prefix(length) ==
    SubSeq(PATTERN, 1, IF length < 62 THEN length ELSE 62)

\* mbp481_crc_discovery_fuzzer.main:
\* bytes([0x55, 0x0D, length & 0xFF, (length >> 8) & 0xFF]) + payload
frame_wo_crc(length, p) ==
    <<85, 13, length % 256, (length \div 256) % 256>> \o p

Builders ==
    {"ate_command_sender", "automated_suite", "superfuzzer_fixed",
     "superfuzzer_fixed_gemini", "superfuzzer_fixed_gemini2", "crc_discovery"}

\* the payload lengths of the discovery loop that are modelled (of 1..32)
DiscoveryLengths == {1, 3, 32}

BuilderFrame(b, o, p) ==
    CASE b = "ate_command_sender"        -> build_frame(o, p)
      [] b = "automated_suite"           -> suite_build_frame(o, p)
      [] b = "superfuzzer_fixed"         -> fixed_build_frame(o, p)
      [] b = "superfuzzer_fixed_gemini"  -> gemini_build_frame(o, p)
      [] b = "superfuzzer_fixed_gemini2" -> gemini2_build_frame(o, p)
      [] b = "crc_discovery"             -> frame_wo_crc(Len(p), p)

BldInit ==
    /\ builder \in Builders
    /\ IF builder = "crc_discovery"
       THEN bOp = OP_0D /\ bPayload \in {pattern_prefix(n) : n \in DiscoveryLengths}
       ELSE bOp \in Opcodes /\ bPayload \in Payloads
    /\ bFrame = <<>> /\ bRef = <<>> /\ bPc = "start"

bldOthers ==
    <<codecVars, classVars, sessVars, obsVars, scanVars, diffVars, sfVars,
      discVars, entryVars,
      pwVars,
      feVars,
      rwVars,
      twVars,
      swVars,
      dbVars,
      spVars>>

\* frame = build_frame(op, payload), in the selected script
Build ==
    /\ bPc = "start"
    /\ bFrame' = BuilderFrame(builder, bOp, bPayload)
    /\ bPc' = "built"
    /\ UNCHANGED <<builder, bOp, bPayload, bRef>>
    /\ UNCHANGED bldOthers

\* the same arguments through ate_command_sender.build_frame
BuildReference ==
    /\ bPc = "built"
    /\ bRef' = build_frame(bOp, bPayload)
    /\ bPc' = "done"
    /\ UNCHANGED <<builder, bOp, bPayload, bFrame>>
    /\ UNCHANGED bldOthers

InitBuilders ==
    /\ BldInit /\ SfIdle /\ DiscIdle /\ EntryIdle
    /\ CodecIdle /\ ClassIdle /\ SessIdle /\ ScanIdle /\ DiffIdle
    /\ PwIdle
    /\ FeIdle
    /\ RwIdle
    /\ TwIdle
    /\ SwIdle
    /\ DbIdle
    /\ SpIdle
NextBuilders == Build \/ BuildReference
SpecBuilders == InitBuilders /\ [][NextBuilders]_vars

(***************************************************************************)
(* mbp481_crc_discovery_fuzzer: the candidate checksums and the fuzz loop. *)
(***************************************************************************)
RECURSIVE SumBytes(_, _, _)
SumBytes(data, lo, hi) ==
    IF lo > hi THEN 0
    ELSE IF lo = hi THEN data[lo]
    ELSE LET mid == (lo + hi) \div 2
         IN  SumBytes(data, lo, mid) + SumBytes(data, mid + 1, hi)

\* sum(data) & 0xFF
sum8(data) == SumBytes(data, 1, Len(data)) % 256

\* sum(data) & 0xFFFF
sum16_le(data) == SumBytes(data, 1, Len(data)) % 65536

\* s = sum(data) & 0xFFFF; ((s & 0xFF) << 8) | (s >> 8)
sum16_be(data) ==
    LET sm == SumBytes(data, 1, Len(data)) % 65536
    IN  ((sm % 256) * 256) + (sm \div 256)

\* crc16_ibm: the loop of crc16_modbus, masked to 16 bits
crc16_ibm(data) == CrcFold(65535, data) % 65536

\* crc16_ccitt, the inner loop: for _ in range(8)
RECURSIVE CcittShift(_, _)
CcittShift(crc, n) ==
    IF n = 0 THEN crc
    ELSE LET shifted == IF crc >= 32768 THEN Xor((crc * 2) % 65536, 4129)
                                        ELSE (crc * 2) % 65536
         IN  IF shifted >= 0 THEN CcittShift(shifted, n - 1) ELSE -1

\* crc16_ccitt, the outer loop over data[lo..hi]: crc ^= b << 8
RECURSIVE CcittRange(_, _, _, _)
CcittRange(crc, data, lo, hi) ==
    IF lo > hi THEN crc
    ELSE IF lo = hi THEN CcittShift(Xor(crc, data[lo] * 256), 8)
    ELSE LET mid  == (lo + hi) \div 2
             left == CcittRange(crc, data, lo, mid)
         IN  IF left >= 0 THEN CcittRange(left, data, mid + 1, hi) ELSE -1

crc16_ccitt(data) == CcittRange(65535, data, 1, Len(data)) % 65536

\* ALGORITHMS, by name
ALGORITHMS == <<"SUM8", "SUM16-LE", "SUM16-BE", "CRC16-IBM", "CRC16-CCITT">>

\* crc = func(payload) if name.startswith("SUM") else func(frame_wo_crc)
candidate_crc(i, p, fwc) ==
    CASE i = 1 -> sum8(p)
      [] i = 2 -> sum16_le(p)
      [] i = 3 -> sum16_be(p)
      [] i = 4 -> crc16_ibm(fwc)
      [] i = 5 -> crc16_ccitt(fwc)

\* frame_wo_crc + bytes([crc & 0xFF, (crc >> 8) & 0xFF]) + b"\r"
discovery_frame(length, p, crc) ==
    frame_wo_crc(length, p) \o <<crc % 256, (crc \div 256) % 256>> \o <<13>>

\* ERROR_STRINGS = [b"Error", b"CMD", b"Preamble"]
ERROR_STRINGS == <<SubSeq(CmdError, 5, 9), SubSeq(CmdError, 1, 3),
                   SubSeq(PreambleError, 1, 8)>>

\* A plausible variant: an empty response does not count.
resp_ok_nonempty(resp) ==
    resp # <<>> /\ ~\E i \in 1..Len(ERROR_STRINGS) : Contains(ERROR_STRINGS[i], resp)

\* not any(err in resp for err in ERROR_STRINGS)
resp_ok(resp) == ~\E i \in 1..Len(ERROR_STRINGS) : Contains(ERROR_STRINGS[i], resp)

\* bound on --max-len (default 32)
DiscMaxLen == 1

\* range(0x0000, 0x10000)
BRUTE_END == 65536

\* what ser.read(ser.in_waiting or 1) may return 0.1 s / 0.02 s after the
\* write; b"" when the 0.05 s read timeout expires
DiscResponses ==
    {<<>>, CmdError \o <<13, 10>>, PreambleError \o <<13, 10>>, <<79, 75, 13, 10>>}

DiscInit ==
    /\ dLength = 1 /\ dPhase = "named" /\ dIdx = 1 /\ dCrc = 0
    /\ dAccepted = FALSE /\ dFrame = <<>> /\ dResp = <<>>
    /\ dReport = <<>> /\ dPc = "write"

discOthers ==
    <<codecVars, classVars, sessVars, obsVars, scanVars, diffVars, sfVars,
      bldVars, entryVars,
      pwVars,
      feVars,
      rwVars,
      twVars,
      swVars,
      dbVars,
      spVars>>

\* for length in range(1, args.max_len + 1): the next iteration, or the end
next_length(length) ==
    IF length < DiscMaxLen
    THEN [dLength |-> length + 1, dPc |-> "write"]
    ELSE [dLength |-> length, dPc |-> "done"]

\* the named-algorithm loop: frame = ...; ser.write(frame)
NamedWrite ==
    /\ dPc = "write" /\ dPhase = "named"
    /\ LET p == pattern_prefix(dLength)
       IN  dFrame' = discovery_frame(dLength, p,
                         candidate_crc(dIdx, p, frame_wo_crc(dLength, p)))
    /\ dPc' = "read"
    /\ UNCHANGED <<dLength, dPhase, dIdx, dCrc, dAccepted, dResp, dReport>>
    /\ UNCHANGED discOthers

\* the named-algorithm loop: resp = ser.read(...); ok = ...; print; and
\* after the last algorithm "if not accepted:" up to the brute-force loop
NamedRead ==
    /\ dPc = "read" /\ dPhase = "named"
    /\ \E resp \in DiscResponses :
          LET ok  == resp_ok(resp)
              acc == dAccepted \/ ok
              nl  == next_length(dLength)
          IN
          /\ dResp' = resp
          /\ dReport' = <<ALGORITHMS[dIdx], IF ok THEN "GOOD" ELSE "error">>
          /\ IF dIdx < Len(ALGORITHMS)
             THEN /\ dIdx' = dIdx + 1
                  /\ dAccepted' = acc
                  /\ dPc' = "write"
                  /\ UNCHANGED <<dLength, dPhase, dCrc>>
             ELSE IF ~acc
             THEN /\ dPhase' = "brute"
                  /\ dCrc' = 0
                  /\ dPc' = "write"
                  /\ dAccepted' = acc
                  /\ UNCHANGED <<dLength, dIdx>>
             ELSE /\ dLength' = nl.dLength
                  /\ dPc' = nl.dPc
                  /\ dIdx' = 1
                  /\ dAccepted' = FALSE
                  /\ UNCHANGED <<dPhase, dCrc>>
    /\ UNCHANGED dFrame
    /\ UNCHANGED discOthers

\* the brute-force loop: frame = ... + bytes([crc & 0xFF, crc >> 8]) + b"\r"
BruteWrite ==
    /\ dPc = "write" /\ dPhase = "brute"
    /\ dFrame' = discovery_frame(dLength, pattern_prefix(dLength), dCrc)
    /\ dPc' = "read"
    /\ UNCHANGED <<dLength, dPhase, dIdx, dCrc, dAccepted, dResp, dReport>>
    /\ UNCHANGED discOthers

\* the brute-force loop: resp = ser.read(...); found / next crc / none
BruteRead ==
    /\ dPc = "read" /\ dPhase = "brute"
    /\ \E resp \in DiscResponses :
          LET ok == resp_ok(resp)
              nl == next_length(dLength)
          IN
          /\ dResp' = resp
          /\ IF ~ok /\ dCrc + 1 < BRUTE_END
             THEN /\ dCrc' = dCrc + 1
                  /\ dPc' = "write"
                  /\ UNCHANGED <<dLength, dPhase, dIdx, dAccepted, dReport>>
             ELSE /\ dReport' = IF ok THEN <<"brute", "found">>
                                ELSE <<"brute", "none">>
                  /\ dLength' = nl.dLength
                  /\ dPc' = nl.dPc
                  /\ dPhase' = "named"
                  /\ dIdx' = 1
                  /\ dAccepted' = FALSE
                  /\ UNCHANGED dCrc
    /\ UNCHANGED dFrame
    /\ UNCHANGED discOthers

InitDiscovery ==
    /\ DiscInit /\ SfIdle /\ BldIdle /\ EntryIdle
    /\ CodecIdle /\ ClassIdle /\ SessIdle /\ ScanIdle /\ DiffIdle
    /\ PwIdle
    /\ FeIdle
    /\ RwIdle
    /\ TwIdle
    /\ SwIdle
    /\ DbIdle
    /\ SpIdle
NextDiscovery == NamedWrite \/ NamedRead \/ BruteWrite \/ BruteRead
SpecDiscovery == InitDiscovery /\ [][NextDiscovery]_vars

(***************************************************************************)
(* The mode entry of the register-scan scripts (master_analyzer stages 1   *)
(* and 2, day_night_mapper) and their main(): enter the mode, scan when    *)
(* the entry returned True, close the session.  Time is counted in units   *)
(* of 0.1 s.                                                               *)
(***************************************************************************)
\* deadline = time.time() + 20
ENTRY_PROMPT_DEADLINE == 200

\* deadline = time.time() + 10
ENTRY_CONFIRM_DEADLINE == 100

\* b"Please key"
PLEASE_KEY == <<80, 108, 101, 97, 115, 101, 32, 107, 101, 121>>

\* b"Example:"
EXAMPLE == <<69, 120, 97, 109, 112, 108, 101, 58>>

\* the timeout of sess.read_raw in the prompt wait
prompt_read_timeout(s) == IF s = "master" THEN 1 ELSE 2

\* the timeout of sess.read_raw() in the confirmation wait
confirm_read_timeout == 2

\* f"{mode}\r".encode()
mode_key(mode) == (IF mode = "c" THEN <<99>> ELSE <<110>>) \o CR

\* the value returned when the confirmation deadline passes
confirm_miss_proceeds == "TRUE"
confirm_miss_result == "FALSE"

\* what one read of the device can deliver while the prompt is awaited
EntryPromptChunks ==
    {<<80, 108, 101, 97, 115, 101, 32>>, <<107, 101, 121>>, <<13, 10>>}

\* what one read of the device can deliver while the confirmation is awaited
EntryConfirmChunks ==
    {<<69, 120, 97, 109>>, <<112, 108, 101, 58>>, <<13, 10>>}

\* the moments within a read of timeout rt at which data can arrive
ArrivalDelays(rt) == {0, rt - 1}

\* the devices scanned after the entry
EntryProfiles ==
    {[k1 |-> "silent", k2 |-> "reply", period |-> 16],
     [k1 |-> "reply", k2 |-> "reply", period |-> 16]}

EntryInit ==
    /\ scanner \in {"master", "daynight"}
    /\ profile \in EntryProfiles
    /\ scanPc = "idle" /\ addr = 0 /\ register_map = <<>> /\ pending = <<>>
    /\ cmdsWritten = 0 /\ lastCmd = <<>> /\ savedDump = "NONE"
    /\ eMode \in {"c", "n"}
    /\ ePc = "prompt_wait"
    /\ eBuf = <<>> /\ eElapsed = 0
    /\ eKeys = 0 /\ eLastKey = <<>> /\ eResult = "NONE"
    /\ ePromptSeen = FALSE /\ eConfirmSeen = FALSE /\ eClosed = FALSE

entryOthers ==
    <<codecVars, classVars, sessVars, obsVars, diffVars, sfVars, bldVars,
      discVars,
      pwVars,
      feVars,
      rwVars,
      twVars,
      swVars,
      dbVars,
      spVars>>

\* one pass of the prompt loop: a read that delivers data, and the write of
\* the mode key when b"Please key" is in buf
EntryPromptData ==
    /\ ePc = "prompt_wait"
    /\ eElapsed < ENTRY_PROMPT_DEADLINE
    /\ \E data \in EntryPromptChunks, d \in ArrivalDelays(prompt_read_timeout(scanner)) :
          /\ Len(eBuf) + Len(data) <= MaxBuf
          /\ LET nbuf == eBuf \o data
             IN  IF Contains(PLEASE_KEY, nbuf)
                 THEN /\ ePromptSeen' = TRUE
                      /\ eKeys' = eKeys + 1
                      /\ eLastKey' = mode_key(eMode)
                      /\ ePc' = "confirm_wait"
                      /\ eBuf' = <<>>
                      /\ eElapsed' = 0
                 ELSE /\ eBuf' = nbuf
                      /\ eElapsed' = eElapsed + d
                      /\ UNCHANGED <<ePromptSeen, eKeys, eLastKey, ePc>>
    /\ UNCHANGED <<eMode, eResult, eConfirmSeen, eClosed>>
    /\ UNCHANGED <<scanVars, entryOthers>>

\* one pass of the prompt loop: read_raw returns None
EntryPromptTimeout ==
    /\ ePc = "prompt_wait"
    /\ eElapsed < ENTRY_PROMPT_DEADLINE
    /\ eElapsed' = eElapsed + prompt_read_timeout(scanner)
    /\ UNCHANGED <<eMode, ePc, eBuf, eKeys, eLastKey, eResult, ePromptSeen,
                   eConfirmSeen, eClosed>>
    /\ UNCHANGED <<scanVars, entryOthers>>

\* if not prompt_found: return False
EntryPromptMiss ==
    /\ ePc = "prompt_wait"
    /\ eElapsed >= ENTRY_PROMPT_DEADLINE
    /\ eResult' = "FALSE"
    /\ ePc' = "returned"
    /\ eBuf' = <<>>
    /\ eElapsed' = 0
    /\ UNCHANGED <<eMode, eKeys, eLastKey, ePromptSeen, eConfirmSeen, eClosed>>
    /\ UNCHANGED <<scanVars, entryOthers>>

\* one pass of the confirmation loop: a read that delivers data, and
\* return True when b"Example:" is in confirmation_buf
EntryConfirmData ==
    /\ ePc = "confirm_wait"
    /\ eElapsed < ENTRY_CONFIRM_DEADLINE
    /\ \E data \in EntryConfirmChunks, d \in ArrivalDelays(confirm_read_timeout) :
          /\ Len(eBuf) + Len(data) <= MaxBuf
          /\ LET confirmation_buf == eBuf \o data
             IN  IF Contains(EXAMPLE, confirmation_buf)
                 THEN /\ eConfirmSeen' = TRUE
                      /\ eResult' = "TRUE"
                      /\ ePc' = "returned"
                      /\ eBuf' = <<>>
                      /\ eElapsed' = 0
                 ELSE /\ eBuf' = confirmation_buf
                      /\ eElapsed' = eElapsed + d
                      /\ UNCHANGED <<eConfirmSeen, eResult, ePc>>
    /\ UNCHANGED <<eMode, eKeys, eLastKey, ePromptSeen, eClosed>>
    /\ UNCHANGED <<scanVars, entryOthers>>

\* one pass of the confirmation loop: read_raw returns None
EntryConfirmTimeout ==
    /\ ePc = "confirm_wait"
    /\ eElapsed < ENTRY_CONFIRM_DEADLINE
    /\ eElapsed' = eElapsed + confirm_read_timeout
    /\ UNCHANGED <<eMode, ePc, eBuf, eKeys, eLastKey, eResult, ePromptSeen,
                   eConfirmSeen, eClosed>>
    /\ UNCHANGED <<scanVars, entryOthers>>

\* log.error("[FAIL] Did not receive CMOS confirmation ..."); return False
EntryConfirmMiss ==
    /\ ePc = "confirm_wait"
    /\ eElapsed >= ENTRY_CONFIRM_DEADLINE
    /\ eResult' = confirm_miss_result
    /\ ePc' = "returned"
    /\ eBuf' = <<>>
    /\ eElapsed' = 0
    /\ UNCHANGED <<eMode, eKeys, eLastKey, ePromptSeen, eConfirmSeen, eClosed>>
    /\ UNCHANGED <<scanVars, entryOthers>>

\* if await enter_scan_mode(sess, args.mode): await scan_and_save(...)
EntryMain ==
    /\ ePc = "returned"
    /\ IF eResult = "TRUE"
       THEN ePc' = "scanning" /\ scanPc' = "write"
       ELSE ePc' = "closing" /\ scanPc' = scanPc
    /\ UNCHANGED <<scanner, profile, addr, register_map, pending, cmdsWritten,
                   lastCmd, savedDump>>
    /\ UNCHANGED <<eMode, eBuf, eElapsed, eKeys, eLastKey, eResult,
                   ePromptSeen, eConfirmSeen, eClosed>>
    /\ UNCHANGED entryOthers

\* finally: await sess.close()
EntryClose ==
    /\ \/ ePc = "closing"
       \/ ePc = "scanning" /\ scanPc = "saved"
    /\ eClosed' = TRUE
    /\ ePc' = "exited"
    /\ UNCHANGED <<eMode, eBuf, eElapsed, eKeys, eLastKey, eResult,
                   ePromptSeen, eConfirmSeen>>
    /\ UNCHANGED <<scanVars, entryOthers>>

InitEntry ==
    /\ EntryInit /\ CodecIdle /\ ClassIdle /\ SessIdle /\ DiffIdle
    /\ SfIdle /\ BldIdle /\ DiscIdle
    /\ PwIdle
    /\ FeIdle
    /\ RwIdle
    /\ TwIdle
    /\ SwIdle
    /\ DbIdle
    /\ SpIdle

NextEntry ==
    \/ EntryPromptData \/ EntryPromptTimeout \/ EntryPromptMiss
    \/ EntryConfirmData \/ EntryConfirmTimeout \/ EntryConfirmMiss
    \/ EntryMain \/ EntryClose
    \/ ScanWrite \/ ScanCollect \/ ScanSave

SpecEntry == InitEntry /\ [][NextEntry]_vars

(***************************************************************************)
(* The prompt waits of superfuzzer_fixed.boot_sync, superfuzz.wait_prompt  *)
(* and fuzzer2: loops on the content of buf alone.  Time is counted in     *)
(* units of 0.1 s, up to MaxWait.                                          *)
(***************************************************************************)
\* the time the model counts, in 0.1 s
MaxWait == 12

\* serial.Serial(DEV, BAUD, timeout=0.3)
SERIAL_TIMEOUT == 3

\* PROMPTS = [b"Please key", b"Debug Info", b"CMOS", b"execute ATE"]
PROMPTS ==
    {<<80, 108, 101, 97, 115, 101, 32, 107, 101, 121>>,
     <<68, 101, 98, 117, 103, 32, 73, 110, 102, 111>>,
     <<67, 77, 79, 83>>,
     <<101, 120, 101, 99, 117, 116, 101, 32, 65, 84, 69>>}

\* the condition that ends the prompt loop of script s
prompt_in_buf(s, b) ==
    IF s = "fuzzer2" THEN \E p \in PROMPTS : Contains(p, b)
    ELSE Contains(PROMPT, b)

\* what is written when the prompt loop has ended
key_after_prompt(s, mode) ==
    CASE s = "fixed"     -> <<121, 13>>
      [] s = "superfuzz" -> <<121>>
      [] s = "fuzzer2"   -> CASE mode = "loader" -> <<27, 27>>
                              [] mode = "ate"    -> <<121>>
                              [] OTHER           -> <<>>

\* the time counted after d more units
Later(t, d) == IF t + d > MaxWait THEN MaxWait ELSE t + d

\* what one read can deliver: "Please ", "key 'y'", "CMOS", "\r\n"
PwChunks == PromptChunks \cup {<<67, 77, 79, 83>>}

PwInit ==
    /\ pwScript \in {"fixed", "superfuzz", "fuzzer2"}
    /\ pwChannel \in {"silent", "talking", "eof"}
    /\ pwScript # "fixed" => pwChannel # "eof"
    /\ pwPc = "prompt_wait"
    /\ pwBuf = <<>> /\ pwElapsed = 0 /\ pwWritten = <<>> /\ pwEmpty = FALSE

pwOthers ==
    <<codecVars, classVars, sessVars, obsVars, scanVars, diffVars, sfVars,
      bldVars, discVars, entryVars,
      feVars,
      rwVars,
      twVars,
      swVars,
      dbVars,
      spVars>>

\* buf += data, the test of the loop, and the write that follows the loop
PwAppend(data, d) ==
    LET nbuf == pwBuf \o data
    IN  /\ pwBuf' = nbuf
        /\ pwElapsed' = Later(pwElapsed, d)
        /\ pwEmpty' = (pwEmpty \/ data = <<>>)
        /\ IF prompt_in_buf(pwScript, nbuf)
           THEN /\ pwPc' = "key_sent"
                /\ \E mode \in {"loader", "ate", "raw"} :
                      pwWritten' = key_after_prompt(pwScript, mode)
           ELSE UNCHANGED <<pwPc, pwWritten>>
        /\ UNCHANGED <<pwScript, pwChannel>>
        /\ UNCHANGED pwOthers

\* buf += ser.read(256): returns after the 0.3 s timeout with the bytes
\* that arrived, b"" when none did
PwSerialRead ==
    /\ pwPc = "prompt_wait"
    /\ pwScript \in {"superfuzz", "fuzzer2"}
    /\ \/ PwAppend(<<>>, SERIAL_TIMEOUT)
       \/ /\ pwChannel = "talking"
          /\ \E data \in PwChunks :
                /\ Len(pwBuf) + Len(data) <= MaxBuf
                /\ PwAppend(data, SERIAL_TIMEOUT)

\* buf += await sess.read(): returns when bytes have arrived
PwAsyncRead ==
    /\ pwPc = "prompt_wait"
    /\ pwScript = "fixed"
    /\ pwChannel = "talking"
    /\ \E data \in PwChunks, d \in {0, 1} :
          /\ Len(pwBuf) + Len(data) <= MaxBuf
          /\ PwAppend(data, d)

\* await sess.read() at end of file: returns b"" at once
PwAsyncEof ==
    /\ pwPc = "prompt_wait"
    /\ pwScript = "fixed"
    /\ pwChannel = "eof"
    /\ PwAppend(<<>>, 0)

\* await sess.read() with no byte on the channel: the read stays pending
\* while time passes
PwAsyncPending ==
    /\ pwPc = "prompt_wait"
    /\ pwScript = "fixed"
    /\ pwChannel # "eof"
    /\ pwElapsed' = Later(pwElapsed, 1)
    /\ UNCHANGED <<pwScript, pwChannel, pwPc, pwBuf, pwWritten, pwEmpty>>
    /\ UNCHANGED pwOthers

InitPromptWait ==
    /\ PwInit
    /\ SfIdle /\ BldIdle /\ DiscIdle /\ EntryIdle
    /\ CodecIdle /\ ClassIdle /\ SessIdle /\ ScanIdle /\ DiffIdle
    /\ FeIdle
    /\ RwIdle
    /\ TwIdle
    /\ SwIdle
    /\ DbIdle
    /\ SpIdle

NextPromptWait ==
    PwSerialRead \/ PwAsyncRead \/ PwAsyncEof \/ PwAsyncPending

SpecPromptWait ==
    InitPromptWait /\ [][NextPromptWait]_vars /\ WF_vars(NextPromptWait)

(***************************************************************************)
(* final_explorer: read_register, write_register and the three operations  *)
(* of main(), from the point where enter_cmos_mode has returned True.      *)
(***************************************************************************)
\* deadline = time.time() + 2, in read timeouts of 0.1 s
EXPLORER_WINDOW == 20

\* int(value_str, 16) of a run of hex digits
RECURSIVE ParseHex(_)
ParseHex(t) ==
    IF t = <<>> THEN 0
    ELSE LET c == Lower(t[Len(t)])
             d == IF c >= 97 THEN c - 87 ELSE c - 48
         IN  16 * ParseHex(SubSeq(t, 1, Len(t) - 1)) + d

\* rf"Addr:0x{re.escape(hex_addr_str)},\s*Data:0x([0-9a-fA-F]+)" matched at
\* position i: the span of group 1, or <<>> when there is no match at i
ExplorerMatchAt(t, i, hex_addr_str) ==
    LET lit == <<97, 100, 100, 114, 58, 48, 120>> \o hex_addr_str \o <<44>> IN
    IF ~LitAt(t, i, lit) THEN <<>>
    ELSE LET d == SpaceRunEnd(t, i + Len(lit)) IN
         IF ~LitAt(t, d, <<100, 97, 116, 97, 58, 48, 120>>) THEN <<>>
         ELSE LET h == HexRunEnd(t, d + 7) IN
              IF h = d + 7 THEN <<>> ELSE <<d + 7, h - 1>>

\* pattern.search(read_buffer): match.group(1) of the leftmost match, or
\* <<>> for None
explorer_search(t, hex_addr_str) ==
    LET hits == {i \in 1..Len(t) : ExplorerMatchAt(t, i, hex_addr_str) # <<>>} IN
    IF hits = {} THEN <<>>
    ELSE LET i == CHOOSE j \in hits : \A k \in hits : j <= k
             g == ExplorerMatchAt(t, i, hex_addr_str)
         IN  SubSeq(t, g[1], g[2])

\* read_register, the loop: reads is the sequence of read_raw results to
\* come (<<>> is a timeout of 0.1 s; past its end every read times out);
\* the value returned, -1 for None
RECURSIVE read_register_loop(_, _, _, _)
read_register_loop(reads, hex_addr_str, read_buffer, t) ==
    IF ~(t < EXPLORER_WINDOW) \/ reads = <<>> THEN -1
    ELSE LET data_bytes == Head(reads) IN
         IF data_bytes = <<>>
         THEN read_register_loop(Tail(reads), hex_addr_str, read_buffer, t + 1)
         ELSE LET nb == read_buffer \o decode_ignore(data_bytes)
                  m  == explorer_search(nb, hex_addr_str)
              IN  IF m # <<>> THEN ParseHex(m)
                  ELSE read_register_loop(Tail(reads), hex_addr_str, nb, t)

\* A plausible slip: the two fields are written in the wrong order.
write_command_swapped(a, value) ==
    <<48, 49>> \o format_02x(value) \o format_02x(a) \o <<13>>

\* write_register: command_str = f"01{addr:02x}{value:02x}\r"
write_command(a, value) ==
    <<48, 49>> \o format_02x(a) \o format_02x(value) \o <<13>>

\* the ADDR and VALUE arguments, after int(..., 16)
ExplorerArgs == {0, 1, 15, 16, 254, 255, 256, 4095}

\* the digits of the Data field the device may send
ReplyDigits ==
    {<<48>>, <<50, 97>>, <<50, 65>>, <<102, 102>>, <<49, 48, 48>>,
     <<48, 49, 48, 48>>}

\* "Addr:0x<a>, Data:0x<digits>\r\n"
ExplorerReply(a, digits) ==
    <<65, 100, 100, 114, 58, 48, 120>> \o format_02x(a)
        \o <<44, 32, 68, 97, 116, 97, 58, 48, 120>> \o digits \o <<13, 10>>

\* what the reads after the read command for a may return: silence, the
\* echo and the reply, the reply in two pieces, the reply for another
\* address
ExplorerReads(a) ==
    {<<>>}
    \cup {<<read_command(a), ExplorerReply(a, dg)>> : dg \in ReplyDigits}
    \cup {<<read_command(a) \o SubSeq(ExplorerReply(a, dg), 1, Len(ExplorerReply(a, dg)) - 3),
            SubSeq(ExplorerReply(a, dg), Len(ExplorerReply(a, dg)) - 2,
                   Len(ExplorerReply(a, dg)))>> : dg \in {<<50, 97>>}}
    \cup {<<read_command(a), ExplorerReply((a + 1) % 256, <<50, 97>>)>>}

FeInit ==
    /\ feOp \in {"read", "write", "tweak-reset"}
    /\ feAddr \in ExplorerArgs
    /\ IF feOp = "write" THEN feArg \in ExplorerArgs ELSE feArg = 0
    /\ IF feOp = "write" THEN feReads = <<>> ELSE feReads \in ExplorerReads(feAddr)
    /\ feOriginal = -1 /\ feCmds = <<>> /\ fePc = "start"

feOthers ==
    <<codecVars, classVars, sessVars, obsVars, scanVars, diffVars, sfVars,
      bldVars, discVars, entryVars, pwVars,
      rwVars,
      twVars,
      swVars,
      dbVars,
      spVars>>

\* value = await read_register(sess, addr)
ReadRegister ==
    /\ fePc = "start" /\ feOp \in {"read", "tweak-reset"}
    /\ feCmds' = Append(feCmds, read_command(feAddr))
    /\ feOriginal' = read_register_loop(feReads, format_02x(feAddr), <<>>, 0)
    /\ fePc' = IF feOp = "read" THEN "done" ELSE "read_done"
    /\ UNCHANGED <<feOp, feAddr, feArg, feReads>>
    /\ UNCHANGED feOthers

\* if original_value is None: ...; return
TweakReadFailed ==
    /\ fePc = "read_done" /\ feOriginal = -1
    /\ fePc' = "done"
    /\ UNCHANGED <<feOp, feAddr, feArg, feReads, feOriginal, feCmds>>
    /\ UNCHANGED feOthers

\* tweaked_value = original_value ^ 1; await write_register(...)
TweakWrite ==
    /\ fePc = "read_done" /\ feOriginal # -1
    /\ feCmds' = Append(feCmds, write_command(feAddr, Xor(feOriginal, 1)))
    /\ fePc' = "done"
    /\ UNCHANGED <<feOp, feAddr, feArg, feReads, feOriginal>>
    /\ UNCHANGED feOthers

\* elif args.write: await write_register(sess, addr, value)
WriteRegister ==
    /\ fePc = "start" /\ feOp = "write"
    /\ feCmds' = Append(feCmds, write_command(feAddr, feArg))
    /\ fePc' = "done"
    /\ UNCHANGED <<feOp, feAddr, feArg, feReads, feOriginal>>
    /\ UNCHANGED feOthers

InitExplorer ==
    /\ FeInit
    /\ SfIdle /\ BldIdle /\ DiscIdle /\ EntryIdle /\ PwIdle
    /\ CodecIdle /\ ClassIdle /\ SessIdle /\ ScanIdle /\ DiffIdle
    /\ RwIdle
    /\ TwIdle
    /\ SwIdle
    /\ DbIdle
    /\ SpIdle

NextExplorer == ReadRegister \/ TweakReadFailed \/ TweakWrite \/ WriteRegister

SpecExplorer == InitExplorer /\ [][NextExplorer]_vars

(***************************************************************************)
(* mbp481_crc_discovery_fuzzer: the wait for the ATE banner after the key  *)
(* was written: three read_until calls in a row, each with a buffer and a  *)
(* deadline of its own.  Time is counted in seconds.                       *)
(***************************************************************************)
\* bound on the chunks the device delivers during the wait
MaxReadyChunks == 2

\* read_until(ser, b"Start ATE", 6.0) or read_until(ser, b"Start ATE Test", 4.0)
\* or read_until(ser, b"eATE_INIT", 4.0): the substring of call number k
ready_substr(k) == READY[k]

\* ... and its timeout
ready_timeout(k) == <<6, 4, 4>>[k]

\* read_until: buf += ser.read(...); if substr in buf
read_until_found(substr, b, chunk) == Contains(substr, b \o chunk)

\* what the device may send in one piece
RwChunks == {READY[1], READY[2], READY[3], <<13, 10>>}

\* ser.write(b"y\r"); ser.flush(): the wait begins
RwInit ==
    /\ rwPc = "wait" /\ rwStage = 1 /\ rwBuf = <<>> /\ rwT = 0
    /\ rwAll = <<>> /\ rwChunks = 0

rwOthers ==
    <<codecVars, classVars, sessVars, obsVars, scanVars, diffVars, sfVars,
      bldVars, discVars, entryVars, pwVars, feVars,
      twVars,
      swVars,
      dbVars,
      spVars>>

\* read_until: the deadline has not passed and ser.read returns bytes
ReadUntilData ==
    /\ rwPc = "wait"
    /\ rwT < ready_timeout(rwStage)
    /\ rwChunks < MaxReadyChunks
    /\ \E chunk \in RwChunks :
          /\ rwAll' = rwAll \o chunk
          /\ IF read_until_found(ready_substr(rwStage), rwBuf, chunk)
             THEN rwPc' = "ready" /\ rwBuf' = <<>>
             ELSE rwPc' = rwPc /\ rwBuf' = rwBuf \o chunk
    /\ rwChunks' = rwChunks + 1
    /\ UNCHANGED <<rwStage, rwT>>
    /\ UNCHANGED rwOthers

\* read_until: the reads of one second return nothing
ReadUntilQuiet ==
    /\ rwPc = "wait"
    /\ rwT < ready_timeout(rwStage)
    /\ rwT' = rwT + 1
    /\ UNCHANGED <<rwPc, rwStage, rwBuf, rwAll, rwChunks>>
    /\ UNCHANGED rwOthers

\* read_until returns False: the next call starts with buf = b"", or the
\* third call is over: "continuing anyway"
ReadUntilExpired ==
    /\ rwPc = "wait"
    /\ ~(rwT < ready_timeout(rwStage))
    /\ IF rwStage < 3
       THEN rwStage' = rwStage + 1 /\ rwPc' = rwPc
       ELSE rwStage' = rwStage /\ rwPc' = "degraded"
    /\ rwBuf' = <<>>
    /\ rwT' = 0
    /\ UNCHANGED <<rwAll, rwChunks>>
    /\ UNCHANGED rwOthers

InitReadyWait ==
    /\ RwInit
    /\ SfIdle /\ BldIdle /\ DiscIdle /\ EntryIdle /\ PwIdle /\ FeIdle
    /\ CodecIdle /\ ClassIdle /\ SessIdle /\ ScanIdle /\ DiffIdle
    /\ TwIdle
    /\ SwIdle
    /\ DbIdle
    /\ SpIdle

NextReadyWait == ReadUntilData \/ ReadUntilQuiet \/ ReadUntilExpired

SpecReadyWait == InitReadyWait /\ [][NextReadyWait]_vars

(***************************************************************************)
(* The tweak-and-scan flow: master_analyzer --stage 4 and tweak_and_scan.  *)
(* enter_cmos_mode, write_register, then scan_and_save.  Time is counted   *)
(* in seconds: a second of the wait is a run of reads that time out.       *)
(***************************************************************************)
TWEAK_PROMPT_DEADLINE == 20
TWEAK_CONFIRM_DEADLINE == 10

\* int(args.tweak_reg, 16) of master_analyzer; tweak_and_scan writes 0xfd
TweakRegs == {0, 253, 255, 511}

\* A plausible slip: any byte after the key counts as the confirmation.
tweak_confirm_found_any(b) == b # <<>>

\* if b"Example:" in confirmation_buf
tweak_confirm_found(b) == Contains(EXAMPLE, b)

\* write_register: f"01{addr:02x}{value:02x}\r"
tweak_write_command(a, value) ==
    <<48, 49>> \o format_02x(a) \o format_02x(value) \o <<13>>

TwInit ==
    /\ twScript \in {"master", "tweak"}
    /\ twReg \in TweakRegs
    /\ twScript = "tweak" => twReg = 253
    /\ twPc = "prompt_wait" /\ twBuf = <<>> /\ twT = 0 /\ twKeys = 0
    /\ twConfirmSeen = FALSE /\ twWrites = <<>> /\ twClosed = FALSE
    /\ scanner = (IF twScript = "master" THEN "master" ELSE "daynight")
    /\ profile \in EntryProfiles
    /\ scanPc = "idle" /\ addr = 0 /\ register_map = <<>> /\ pending = <<>>
    /\ cmdsWritten = 0 /\ lastCmd = <<>> /\ savedDump = "NONE"

twOthers ==
    <<codecVars, classVars, sessVars, obsVars, diffVars, sfVars, bldVars,
      discVars, entryVars, pwVars, feVars, rwVars,
      swVars,
      dbVars,
      spVars>>

\* enter_cmos_mode, prompt loop: a read delivers data; on b"Please key" the
\* key is written and the loop is left
TweakPromptData ==
    /\ twPc = "prompt_wait"
    /\ twT < TWEAK_PROMPT_DEADLINE
    /\ \E data \in EntryPromptChunks :
          /\ Len(twBuf) + Len(data) <= MaxBuf
          /\ IF Contains(PLEASE_KEY, twBuf \o data)
             THEN /\ twKeys' = twKeys + 1
                  /\ twPc' = "confirm_wait"
                  /\ twBuf' = <<>>
                  /\ twT' = 0
             ELSE /\ twBuf' = twBuf \o data
                  /\ UNCHANGED <<twKeys, twPc, twT>>
    /\ UNCHANGED <<twScript, twReg, twConfirmSeen, twWrites, twClosed>>
    /\ UNCHANGED <<scanVars, twOthers>>

\* enter_cmos_mode: the reads of one second return None
TweakQuiet ==
    /\ \/ twPc = "prompt_wait" /\ twT < TWEAK_PROMPT_DEADLINE
       \/ twPc = "confirm_wait" /\ twT < TWEAK_CONFIRM_DEADLINE
    /\ twT' = twT + 1
    /\ UNCHANGED <<twScript, twReg, twPc, twBuf, twKeys, twConfirmSeen,
                   twWrites, twClosed>>
    /\ UNCHANGED <<scanVars, twOthers>>

\* enter_cmos_mode returns False: the prompt or the confirmation did not
\* come in time; main leaves the try block
TweakEntryFailed ==
    /\ \/ twPc = "prompt_wait" /\ twT >= TWEAK_PROMPT_DEADLINE
       \/ twPc = "confirm_wait" /\ twT >= TWEAK_CONFIRM_DEADLINE
    /\ twPc' = "closing"
    /\ twBuf' = <<>>
    /\ twT' = 0
    /\ UNCHANGED <<twScript, twReg, twKeys, twConfirmSeen, twWrites, twClosed>>
    /\ UNCHANGED <<scanVars, twOthers>>

\* enter_cmos_mode, confirmation loop: a read delivers data; on b"Example:"
\* the function returns True
TweakConfirmData ==
    /\ twPc = "confirm_wait"
    /\ twT < TWEAK_CONFIRM_DEADLINE
    /\ \E data \in EntryConfirmChunks :
          /\ Len(twBuf) + Len(data) <= MaxBuf
          /\ twConfirmSeen' = Contains(EXAMPLE, twBuf \o data)
          /\ IF tweak_confirm_found(twBuf \o data)
             THEN twPc' = "tweak" /\ twBuf' = <<>> /\ twT' = 0
             ELSE twPc' = twPc /\ twBuf' = twBuf \o data /\ twT' = twT
    /\ UNCHANGED <<twScript, twReg, twKeys, twWrites, twClosed>>
    /\ UNCHANGED <<scanVars, twOthers>>

\* await write_register(sess, tweak_addr, 0x01); await asyncio.sleep(1.0);
\* scan_and_save begins
TweakWriteRegister ==
    /\ twPc = "tweak"
    /\ twWrites' = Append(twWrites, tweak_write_command(twReg, 1))
    /\ twPc' = "scanning"
    /\ scanPc' = "write"
    /\ UNCHANGED <<twScript, twReg, twBuf, twT, twKeys, twConfirmSeen, twClosed>>
    /\ UNCHANGED <<scanner, profile, addr, register_map, pending, cmdsWritten,
                   lastCmd, savedDump>>
    /\ UNCHANGED twOthers

\* finally: await sess.close()
TweakClose ==
    /\ \/ twPc = "closing"
       \/ twPc = "scanning" /\ scanPc = "saved"
    /\ twClosed' = TRUE
    /\ twPc' = "exited"
    /\ UNCHANGED <<twScript, twReg, twBuf, twT, twKeys, twConfirmSeen, twWrites>>
    /\ UNCHANGED <<scanVars, twOthers>>

InitTweak ==
    /\ TwInit
    /\ SfIdle /\ BldIdle /\ DiscIdle /\ EntryIdle /\ PwIdle /\ FeIdle /\ RwIdle
    /\ CodecIdle /\ ClassIdle /\ SessIdle /\ DiffIdle
    /\ SwIdle
    /\ DbIdle
    /\ SpIdle

NextTweak ==
    \/ TweakPromptData \/ TweakQuiet \/ TweakEntryFailed \/ TweakConfirmData
    \/ TweakWriteRegister \/ TweakClose
    \/ ScanWrite \/ ScanCollect \/ ScanSave

SpecTweak == InitTweak /\ [][NextTweak]_vars

(***************************************************************************)
(* fuzzer2: the sweep over val = 0..255 with the freeze watchdog.          *)
(***************************************************************************)
SWEEP_END == 256

\* crc8_xor: reduce(lambda a, b: a ^ b, buf, 0) & 0xFF
RECURSIVE crc8_xor(_)
crc8_xor(b) ==
    IF b = <<>> THEN 0
    ELSE Xor(crc8_xor(SubSeq(b, 1, Len(b) - 1)), b[Len(b)]) % 256

\* b"\x1B\x52" + struct.pack("<I", 0) + struct.pack("<H", 0x20)
loader_frame == <<27, 82>> \o <<0, 0, 0, 0>> \o ToBytesLittle(32)

\* test_frame of the pass for val
test_frame(mode, val) ==
    IF mode = "loader"
    THEN IF val % 2 = 0 THEN loader_frame
         ELSE loader_frame \o <<crc8_xor(loader_frame)>>
    ELSE IF mode = "ate" THEN <<85, 170>> \o <<val, 0, 0>>
    ELSE <<val>>

\* b"\x1B\x00"
RECOVERY_FRAME == <<27, 0>>

\* A plausible slip: the watchdog fires one silent probe late.
recovery_due_late(freeze) == freeze = 4

\* if freeze == 3
recovery_due(freeze) == freeze = 3

\* what ser.read(512) may return after a probe
SweepResponses == {<<>>, <<62>>}

\* the last four of the events
LastEvents(h) == IF Len(h) <= 4 THEN h ELSE SubSeq(h, Len(h) - 3, Len(h))

\* freeze = 0, before the for loop
SwInit ==
    /\ swMode \in {"loader", "ate", "raw"}
    /\ swVal = 0 /\ swFreeze = 0 /\ swHist = <<>> /\ swSent = <<>>
    /\ swPc = "sweep"

swOthers ==
    <<codecVars, classVars, sessVars, obsVars, scanVars, diffVars, sfVars,
      bldVars, discVars, entryVars, pwVars, feVars, rwVars, twVars,
      dbVars,
      spVars>>

\* one pass of the for loop: response = send(test_frame); the watchdog
SweepProbe ==
    /\ swPc = "sweep" /\ swVal < SWEEP_END
    /\ \E resp \in SweepResponses :
          LET f1  == IF resp # <<>> THEN 0 ELSE swFreeze + 1
              rec == resp = <<>> /\ recovery_due(f1)
              ev  == <<IF resp # <<>> THEN "d" ELSE "e">>
          IN  /\ swFreeze' = IF rec THEN 0 ELSE f1
              /\ swSent' = <<test_frame(swMode, swVal)>>
                             \o (IF rec THEN <<RECOVERY_FRAME>> ELSE <<>>)
              /\ swHist' = LastEvents(swHist \o ev
                                        \o (IF rec THEN <<"r">> ELSE <<>>))
    /\ swVal' = swVal + 1
    /\ UNCHANGED <<swMode, swPc>>
    /\ UNCHANGED swOthers

\* the loop is over: ser.close(); log.close()
SweepFinish ==
    /\ swPc = "sweep" /\ ~(swVal < SWEEP_END)
    /\ swPc' = "closed"
    /\ UNCHANGED <<swMode, swVal, swFreeze, swHist, swSent>>
    /\ UNCHANGED swOthers

InitSweep ==
    /\ SwInit
    /\ SfIdle /\ BldIdle /\ DiscIdle /\ EntryIdle /\ PwIdle /\ FeIdle /\ RwIdle
    /\ TwIdle
    /\ CodecIdle /\ ClassIdle /\ SessIdle /\ ScanIdle /\ DiffIdle
    /\ DbIdle
    /\ SpIdle

NextSweep == SweepProbe \/ SweepFinish

SpecSweep == InitSweep /\ [][NextSweep]_vars

(***************************************************************************)
(* mbp481_superfuzzer.gen_de_bruijn.  The function is computed as the code *)
(* computes it for the alphabets small enough to do so; for the alphabet   *)
(* of the code, 26 letters, the number of elements it collects in seq is   *)
(* compared with what a list can hold.                                     *)
(***************************************************************************)
\* the greatest length asked for
MaxPattern == 40

\* the elements a Python list can hold on the machine (8 bytes each)
MaxListElements == 1000000000

\* len(b"abcdefghijklmnopqrstuvwxyz")
CHARSET_LEN == 26

\* the alphabet sizes of the model: the code's, and small ones
AlphabetSizes == {1, 2, 3, 4, CHARSET_LEN}

\* def db(t, p) with the for loop from j on: a and seq after the call
RECURSIVE db(_, _, _, _, _), db_for(_, _, _, _, _, _)
db(t, p, a, seq, k) ==
    IF t > k
    THEN IF k % p = 0
         THEN [a |-> a, seq |-> seq \o [i \in 1..p |-> a[i]]]
         ELSE [a |-> a, seq |-> seq]
    ELSE LET a1 == [a EXCEPT ![t] = a[t - p]]
             r1 == db(t + 1, p, a1, seq, k)
         IN  db_for(r1.a[t - p] + 1, t, p, r1.a, r1.seq, k)

db_for(j, t, p, a, seq, k) ==
    IF ~(j < k) THEN [a |-> a, seq |-> seq]
    ELSE LET r == db(t + 1, t, [a EXCEPT ![t] = j], seq, k)
         IN  db_for(j + 1, t, p, r.a, r.seq, k)

\* a = [0] * k * 2; seq = []; db(1,1); bytes([charset[i] for i in seq])
de_bruijn_pattern(k) ==
    LET seq == db(1, 1, [i \in 0..(2 * k - 1) |-> 0], <<>>, k).seq
    IN  [i \in 1..Len(seq) |-> 97 + seq[i]]

\* while len(pattern) < length: pattern += pattern
RECURSIVE double_until(_, _)
double_until(pattern, length) ==
    IF Len(pattern) < length THEN double_until(pattern \o pattern, length)
    ELSE pattern

\* gen_de_bruijn(length), for an alphabet of k letters
gen_de_bruijn(length, k) ==
    SubSeq(double_until(de_bruijn_pattern(k), length), 1, length)

\* the number of elements db(1,1) appends to seq, k ** k, or cap + 1 if it
\* is more than cap
RECURSIVE PowerCapped(_, _, _)
PowerCapped(k, n, cap) ==
    IF n = 0 THEN 1
    ELSE LET r == PowerCapped(k, n - 1, cap)
         IN  IF r > cap \div k THEN cap + 1 ELSE r * k

seq_elements(k) == PowerCapped(k, k, MaxListElements)

DbInit ==
    /\ dbK \in AlphabetSizes
    /\ dbLength \in 0..MaxPattern
    /\ dbPc = "call" /\ dbCalls = 0 /\ dbFirst = <<>> /\ dbLast = <<>>

dbOthers ==
    <<codecVars, classVars, sessVars, obsVars, scanVars, diffVars, sfVars,
      bldVars, discVars, entryVars, pwVars, feVars, rwVars, twVars, swVars,
      spVars>>

\* pattern = gen_de_bruijn(length) returns
GenReturns ==
    /\ dbPc \in {"call", "returned"} /\ dbCalls < 2
    /\ seq_elements(dbK) <= MaxListElements
    /\ LET pattern == gen_de_bruijn(dbLength, dbK)
       IN  /\ dbFirst' = IF dbCalls = 0 THEN pattern ELSE dbFirst
           /\ dbLast' = pattern
    /\ dbCalls' = dbCalls + 1
    /\ dbPc' = "returned"
    /\ UNCHANGED <<dbK, dbLength>>
    /\ UNCHANGED dbOthers

\* seq outgrows the memory while db(1,1) runs: MemoryError, or the process
\* is killed; the call does not return
GenExhausts ==
    /\ dbPc = "call"
    /\ seq_elements(dbK) > MaxListElements
    /\ dbPc' = "failed"
    /\ UNCHANGED <<dbK, dbLength, dbCalls, dbFirst, dbLast>>
    /\ UNCHANGED dbOthers

InitDeBruijn ==
    /\ DbInit
    /\ SfIdle /\ BldIdle /\ DiscIdle /\ EntryIdle /\ PwIdle /\ FeIdle /\ RwIdle
    /\ TwIdle /\ SwIdle
    /\ CodecIdle /\ ClassIdle /\ SessIdle /\ ScanIdle /\ DiffIdle
    /\ SpIdle

NextDeBruijn == GenReturns \/ GenExhausts

SpecDeBruijn == InitDeBruijn /\ [][NextDeBruijn]_vars

(***************************************************************************)
(* The prompt waits of ate_command_sender.boot_sync and of                 *)
(* final_explorer.enter_cmos_mode, fed with a prompt that arrives whole or *)
(* in pieces, with reads that time out in between.  Time is counted in     *)
(* units of 0.5 s for the sender and of 0.1 s for the explorer.            *)
(***************************************************************************)
EXPLORER_PROMPT_DEADLINE == 200

\* PROMPT = b"Please key 'y'"  /  b"Please key"
split_marker(s) == IF s = "sender" THEN PROMPT ELSE PLEASE_KEY

\* the timeout of one read: sess.read() / sess.read_raw(timeout=0.1)
split_read_timeout(s) == IF s = "sender" THEN READ_TIMEOUT ELSE 1

\* deadline = time.time() + 15  /  + 20
split_deadline(s) ==
    IF s = "sender" THEN PROMPT_TIMEOUT ELSE EXPLORER_PROMPT_DEADLINE

\* A plausible slip: the marker is looked for in the bytes of the last read.
accumulate_last(b, data) == data

\* buf += data
accumulate(b, data) == b \o data

\* what one read may deliver: the marker, either half of it, a line end
SplitChunks(s) ==
    LET m == split_marker(s)
        h == Len(m) \div 2
    IN  {m, SubSeq(m, 1, h), SubSeq(m, h + 1, Len(m)), <<13, 10>>}

SpInit ==
    /\ spScript \in {"sender", "explorer"}
    /\ spPc = "wait" /\ spBuf = <<>> /\ spT = 0
    /\ spStream = <<>> /\ spDataReads = 0 /\ spGap = FALSE

spOthers ==
    <<codecVars, classVars, sessVars, obsVars, scanVars, diffVars, sfVars,
      bldVars, discVars, entryVars, pwVars, feVars, rwVars, twVars, swVars,
      dbVars>>

\* one pass of the loop in which the read delivers data after d units
SplitReadData ==
    /\ spPc = "wait"
    /\ spT < split_deadline(spScript)
    /\ \E data \in SplitChunks(spScript),
          d \in {0, split_read_timeout(spScript) - 1} :
          /\ Len(spStream) + Len(data) <= MaxBuf
          /\ spBuf' = accumulate(spBuf, data)
          /\ spStream' = spStream \o data
          /\ spT' = spT + d
          /\ spPc' = IF Contains(split_marker(spScript), accumulate(spBuf, data))
                     THEN "detected" ELSE "wait"
    /\ spDataReads' = spDataReads + 1
    /\ UNCHANGED <<spScript, spGap>>
    /\ UNCHANGED spOthers

\* one pass of the loop in which the read times out: b'' / None
SplitReadTimeout ==
    /\ spPc = "wait"
    /\ spT < split_deadline(spScript)
    /\ spT' = spT + split_read_timeout(spScript)
    /\ spGap' = (spGap \/ spDataReads > 0)
    /\ UNCHANGED <<spScript, spPc, spBuf, spStream, spDataReads>>
    /\ UNCHANGED spOthers

\* the deadline has passed without the marker in buf
SplitMiss ==
    /\ spPc = "wait"
    /\ ~(spT < split_deadline(spScript))
    /\ spPc' = "missed"
    /\ UNCHANGED <<spScript, spBuf, spT, spStream, spDataReads, spGap>>
    /\ UNCHANGED spOthers

InitSplit ==
    /\ SpInit
    /\ SfIdle /\ BldIdle /\ DiscIdle /\ EntryIdle /\ PwIdle /\ FeIdle /\ RwIdle
    /\ TwIdle /\ SwIdle /\ DbIdle
    /\ CodecIdle /\ ClassIdle /\ SessIdle /\ ScanIdle /\ DiffIdle

NextSplit == SplitReadData \/ SplitReadTimeout \/ SplitMiss

SpecSplit == InitSplit /\ [][NextSplit]_vars

\* the model's count of seq is the length the code's recursion produces,
\* and for the small alphabets every call returns the same `length`
\* lowercase bytes
SeqElementsAgree ==
    dbK < CHARSET_LEN =>
        /\ Len(de_bruijn_pattern(dbK)) = seq_elements(dbK)
        /\ dbPc # "failed"
        /\ dbPc = "returned" =>
              /\ Len(dbLast) = dbLength /\ dbLast = dbFirst
              /\ \A i \in 1..Len(dbLast) : dbLast[i] \in 97..(96 + dbK)

(***************************************************************************)
(* Reference CRC-16/MODBUS in the catalogue's parametrisation: width 16,   *)
(* poly 0x8005, init 0xFFFF, refin, refout, xorout 0 (MSB-first register,  *)
(* reflected input bytes, reflected result).                               *)
(***************************************************************************)
RECURSIVE Reflect(_, _)
Reflect(x, n) ==
    IF n = 0 THEN 0 ELSE ((x % 2) * (2 ^ (n - 1))) + Reflect(x \div 2, n - 1)

RECURSIVE RefShift(_, _)
RefShift(r, n) ==
    IF n = 0 THEN r
    ELSE LET shifted == IF r >= 32768 THEN Xor((2 * r) % 65536, 32773)
                                      ELSE (2 * r) % 65536
         IN  IF shifted >= 0 THEN RefShift(shifted, n - 1) ELSE -1

RECURSIVE RefRange(_, _, _, _)
RefRange(r, data, lo, hi) ==
    IF lo > hi THEN r
    ELSE IF lo = hi THEN RefShift(Xor(r, Reflect(data[lo], 8) * 256), 8)
    ELSE LET mid  == (lo + hi) \div 2
             left == RefRange(r, data, lo, mid)
         IN  IF left >= 0 THEN RefRange(left, data, mid + 1, hi) ELSE -1

RefFold(r, data) == RefRange(r, data, 1, Len(data))

RefCrc(data) == Reflect(RefFold(65535, data), 16)

IsByte(b) == b \in 0..255

(***************************************************************************)
(* C1: in automated_suite.main, once a probe's response is ACCEPTED no     *)
(* further frame is written to the channel.                                *)
(***************************************************************************)
C1_NoWriteAfterAccepted ==
    [][acceptedSeen => (framesWritten' = framesWritten /\ lastWrite' = lastWrite)]_vars

C1_Witness ==
    /\ prog = "suite" /\ pc = "exited"
    /\ acceptedSeen /\ winModule = 1 /\ winCand = 3
    /\ framesWritten = 3
    /\ lastWrite = <<85, 13, 0, 4, 0, 65, 0, 0, 13>>

(***************************************************************************)
(* C2: if the first ACCEPTED response is on the k-th candidate of module   *)
(* m, the suite writes exactly (candidates of modules 1..m-1) + k frames,  *)
(* the modules having 15, 256, 95 and 256 candidates, and no module after  *)
(* m is invoked.                                                           *)
(***************************************************************************)
ClaimedOffset(m) ==
    CASE m = 1 -> 0
      [] m = 2 -> 15
      [] m = 3 -> 15 + 256
      [] m = 4 -> 15 + 256 + 95

C2_FrameCount ==
    (pc \in {"done", "exited"} /\ acceptedSeen) =>
        /\ framesWritten = ClaimedOffset(winModule) + winCand
        /\ invoked = 1..winModule
        /\ suiteResult = winModule

C2_Witness ==
    /\ pc = "done" /\ acceptedSeen
    /\ winModule = 4 /\ winCand = 5
    /\ framesWritten = 371
    /\ invoked = {1, 2, 3, 4}

(***************************************************************************)
(* C3: in boot_sync, if the prompt marker has not appeared in the          *)
(* accumulated input when the prompt wait ends at its deadline, the        *)
(* session aborts fatally: the mode key is never written and no command    *)
(* frame is written afterwards.                                            *)
(***************************************************************************)
C3_PromptMissFatal ==
    /\ ~promptSeen => (keysWritten = 0 /\ framesWritten = 0 /\ lastWrite = <<>>)
    /\ (pc # "prompt_wait" /\ ~promptSeen) =>
           (bootResult = "FATAL" /\ pc \in {"fatal", "exited"})
    /\ bootResult = "FATAL" => (elapsed >= PROMPT_TIMEOUT /\ ~promptSeen)

\* the device sent only "Please " before the deadline
C3_Witness ==
    /\ bootResult = "FATAL" /\ closed
    /\ buf = SubSeq(PROMPT, 1, 7)
    /\ keysWritten = 0 /\ framesWritten = 0

(***************************************************************************)
(* C4: in boot_sync, if the prompt was detected and the mode key written   *)
(* but no ready marker appears before the ready deadline, boot_sync        *)
(* returns normally (DEGRADED) and the caller sends its command frames;    *)
(* once the key is written the outcome is READY or DEGRADED, never a       *)
(* fatal abort.                                                            *)
(***************************************************************************)
C4_ReadyMissDegraded ==
    /\ keysWritten > 0 =>
           (bootResult \in {"NONE", "READY", "DEGRADED"} /\ pc # "fatal")
    /\ (keysWritten > 0 /\ pc \notin {"prompt_wait", "ready_wait"} /\ ~readySeen) =>
           bootResult = "DEGRADED"
    /\ (bootResult = "DEGRADED" /\ pc = "exited") => framesWritten >= 1
    /\ bootResult \in {"READY", "DEGRADED"} => keysWritten = 1

C4_Witness ==
    /\ prog = "sender" /\ pc = "exited"
    /\ bootResult = "DEGRADED" /\ ~readySeen
    /\ framesWritten = 1
    /\ lastWrite = <<85, 13, 0, 3, 0, 65, 1, 240, 210, 13>>

(***************************************************************************)
(* C5: for opcode 0x0D build_frame yields 0x55, 0x0D, len(payload) as two  *)
(* bytes big-endian, the payload, CRC-16/MODBUS of opcode ++ length ++     *)
(* payload as two bytes little-endian, 0x0D; for any other opcode it       *)
(* yields 0x55 0xAA, the opcode, len(payload) as two bytes little-endian,  *)
(* the payload, and nothing more.                                          *)
(***************************************************************************)
C5_FrameLayout ==
    codecPc = "done" =>
        LET n == Len(payload) IN
        /\ \A i \in 1..Len(frame) : IsByte(frame[i])
        /\ IF op = 13
           THEN /\ Len(frame) = n + 7
                /\ frame[1] = 85
                /\ frame[2] = 13
                /\ (frame[3] * 256) + frame[4] = n
                /\ SubSeq(frame, 5, 4 + n) = payload
                /\ frame[5 + n] + (256 * frame[6 + n])
                       = RefCrc(SubSeq(frame, 2, 4 + n))
                /\ frame[7 + n] = 13
           ELSE /\ Len(frame) = n + 5
                /\ frame[1] = 85
                /\ frame[2] = 170
                /\ frame[3] = op
                /\ frame[4] + (256 * frame[5]) = n
                /\ SubSeq(frame, 6, 5 + n) = payload

\* the frame ate_command_sender.main sends: 55 0d 00 03 00 41 01 f0 d2 0d
C5_Witness ==
    /\ codecPc = "done"
    /\ op = 13
    /\ payload = <<0, 65, 1>>
    /\ frame = <<85, 13, 0, 3, 0, 65, 1, 240, 210, 13>>

(***************************************************************************)
(* C6: crc16_modbus(b"") is 0xFFFF; for every input crc16_modbus returns   *)
(* the CRC-16/MODBUS value (b"123456789" gives 0x4B37); the result lies in *)
(* 0..0xFFFF.                                                              *)
(***************************************************************************)
C6_CrcModbus ==
    codecPc \in {"crc", "done"} =>
        /\ crcOut \in 0..65535
        /\ crcOut = RefCrc(payload)
        /\ (payload = <<>> => crcOut = 65535)
        /\ (payload = Check9 => crcOut = 19255)

C6_Witness ==
    /\ codecPc = "crc"
    /\ payload = Check9
    /\ crcOut = 19255

(***************************************************************************)
(* C7 as stated: the classification is total; an empty response is         *)
(* SILENCE and never ACCEPTED; a non-empty response with "Preamble Error"  *)
(* and no "CMD Error" is PROTOCOL_ERROR; one with "CMD Error" and no       *)
(* "Preamble Error" is COMMAND_ERROR; every other non-empty response,      *)
(* so also one containing both literals, is ACCEPTED.                      *)
(***************************************************************************)
HasPreamble(r) == Contains(PreambleError, r)
HasCmd(r) == Contains(CmdError, r)

ClaimedClass(r) ==
    IF r = <<>> THEN "SILENCE"
    ELSE IF HasPreamble(r) /\ ~HasCmd(r) THEN "PROTOCOL_ERROR"
    ELSE IF HasCmd(r) /\ ~HasPreamble(r) THEN "COMMAND_ERROR"
    ELSE "ACCEPTED"

C7_AsStated ==
    classPc = "done" =>
        /\ classification = ClaimedClass(response)
        /\ runTestResult = (ClaimedClass(response) = "ACCEPTED")

(***************************************************************************)
(* C7 amended: as above, except that "every other non-empty response" is   *)
(* one containing neither literal; a response containing both literals is  *)
(* classified as an error and is never ACCEPTED.                           *)
(***************************************************************************)
C7_Classification ==
    classPc = "done" =>
        /\ classification \in {"SILENCE", "PROTOCOL_ERROR", "COMMAND_ERROR", "ACCEPTED"}
        /\ IF HasPreamble(response) /\ HasCmd(response)
           THEN /\ classification \in {"PROTOCOL_ERROR", "COMMAND_ERROR"}
                /\ ~runTestResult
           ELSE /\ classification = ClaimedClass(response)
                /\ runTestResult = (ClaimedClass(response) = "ACCEPTED")

C7_Witness ==
    /\ classPc = "done"
    /\ HasPreamble(response) /\ HasCmd(response)
    /\ classification # "ACCEPTED"
    /\ ~runTestResult

(***************************************************************************)
(* C8: scan_and_save sends exactly one read command for each address       *)
(* 0x00..0xFF, in ascending order, whichever addresses time out or return  *)
(* unparsable data, and the resulting map has exactly the 256 keys         *)
(* "0x00".."0xff" (lower case, two hex digits), each mapped to a reply     *)
(* string or to NO_RESPONSE.                                               *)
(***************************************************************************)
\* "0123456789abcdef"
LowerHex == <<48, 49, 50, 51, 52, 53, 54, 55, 56, 57, 97, 98, 99, 100, 101, 102>>

ClaimedHex2(a) == <<LowerHex[(a \div 16) + 1], LowerHex[(a % 16) + 1]>>
ClaimedKey(a) == <<48, 120>> \o ClaimedHex2(a)
ClaimedReadCmd(a) == <<48, 48>> \o ClaimedHex2(a) \o <<48, 48, 13>>

IsText(v) == \A i \in 1..Len(v) : v[i] \in 0..127

C8_SweepState ==
    /\ scanPc = "write" =>
           /\ cmdsWritten = addr
           /\ DOMAIN register_map = {ClaimedKey(a) : a \in 0..(addr - 1)}
    /\ scanPc = "collect" =>
           /\ cmdsWritten = addr + 1
           /\ lastCmd = ClaimedReadCmd(addr)
    /\ scanPc \in {"save", "saved"} =>
           /\ cmdsWritten = 256
           /\ DOMAIN register_map = {ClaimedKey(a) : a \in 0..255}
           /\ Cardinality(DOMAIN register_map) = 256
           /\ \A k \in DOMAIN register_map : IsText(register_map[k])
    /\ scanPc = "saved" => savedDump = register_map

\* the n-th write of the scan is the read command for address n - 1
C8_SweepStep ==
    cmdsWritten' # cmdsWritten =>
        /\ cmdsWritten' = cmdsWritten + 1
        /\ cmdsWritten < 256
        /\ lastCmd' = ClaimedReadCmd(cmdsWritten)

C8_FullSweep == [](C8_SweepState) /\ [][C8_SweepStep]_vars

\* address 0x00 timed out, address 0xff answered 0xfc
C8_Witness ==
    /\ scanPc = "saved" /\ scanner = "master"
    /\ cmdsWritten = 256
    /\ DictGet(savedDump, <<48, 120, 48, 48>>) = NO_RESPONSE
    /\ DictGet(savedDump, <<48, 120, 102, 102>>) = <<48, 120, 102, 99>>

(***************************************************************************)
(* C9: analyze_day_night puts every address 0x00..0xff in exactly one of   *)
(* STATIC, DYNAMIC, excluded: excluded iff the value is NO_RESPONSE in     *)
(* both maps; STATIC iff the two values are equal and not both             *)
(* NO_RESPONSE; DYNAMIC iff the two values differ, also when exactly one   *)
(* of them is NO_RESPONSE.                                                 *)
(***************************************************************************)
C9_Partition ==
    (diffPc = "done" /\ stage = 3) =>
        /\ (DOMAIN static_regs) \cup (DOMAIN dynamic_regs)
               \subseteq {ClaimedKey(a) : a \in 0..255}
        /\ (DOMAIN static_regs) \cap (DOMAIN dynamic_regs) = {}
        /\ \A a \in 0..255 :
              LET k  == ClaimedKey(a)
                  dv == DictGet(day_map, k)
                  nv == DictGet(other_map, k)
                  bothSilent == dv = NO_RESPONSE /\ nv = NO_RESPONSE
              IN  /\ (k \notin DOMAIN static_regs /\ k \notin DOMAIN dynamic_regs)
                         <=> bothSilent
                  /\ k \in DOMAIN static_regs <=> (dv = nv /\ ~bothSilent)
                  /\ k \in DOMAIN dynamic_regs <=> dv # nv
                  /\ k \in DOMAIN static_regs => static_regs[k] = dv
                  /\ k \in DOMAIN dynamic_regs =>
                         dynamic_regs[k] = [day |-> dv, night |-> nv]

\* 0xfe is 0x10 by day and unreadable by night: DYNAMIC; 0x01 is unreadable
\* in both: excluded; 0x00 is 0x01 in both: STATIC
C9_Witness ==
    /\ diffPc = "done" /\ stage = 3
    /\ <<48, 120, 102, 101>> \in DOMAIN dynamic_regs
    /\ dynamic_regs[<<48, 120, 102, 101>>] = [day |-> V10, night |-> NO_RESPONSE]
    /\ DictGet(day_map, <<48, 120, 48, 49>>) = NO_RESPONSE
    /\ DictGet(other_map, <<48, 120, 48, 49>>) = NO_RESPONSE
    /\ <<48, 120, 48, 49>> \notin (DOMAIN static_regs) \cup (DOMAIN dynamic_regs)
    /\ <<48, 120, 48, 48>> \in DOMAIN static_regs

(***************************************************************************)
(* C10: final_analysis reports exactly the addresses whose values differ   *)
(* between the baseline map and the tweaked map, taken over every address  *)
(* present in either map, each with its (old, new) pair, and prints the    *)
(* 'no changes' finding iff there is no such address.                      *)
(***************************************************************************)
ClaimedChanges(bm, tm) ==
    {<<k, DictGet(bm, k), DictGet(tm, k)>> :
        k \in {x \in (DOMAIN bm) \cup (DOMAIN tm) : DictGet(bm, x) # DictGet(tm, x)}}

C10_ReportsEveryChange ==
    (diffPc = "done" /\ stage = 5) =>
        /\ changes = ClaimedChanges(day_map, other_map)
        /\ noChangesPrinted <=> (ClaimedChanges(day_map, other_map) = {})

(***************************************************************************)
(* C11: in mbp481_superfuzzer, under every interleaving of bootsync,       *)
(* printer, freeze_monitor and the strategy, at most one coroutine has a   *)
(* read outstanding on the channel: bootsync is the only reader until      *)
(* boot_ready is set and issues no read after setting it.                  *)
(***************************************************************************)
C11_SingleReader ==
    /\ Cardinality(readers) <= 1
    /\ readers \subseteq {"bootsync", "printer"}
    /\ ~boot_ready => readers \subseteq {"bootsync"}
    /\ boot_ready => ("bootsync" \notin readers /\ bsPc \in {"done", "idle"})

\* bootsync has confirmed and returned, the strategy has written its frame,
\* and the printer's read is the one outstanding
C11_Witness ==
    /\ boot_ready /\ bsPc = "done" /\ key_sent
    /\ readers = {"printer"}
    /\ stPc = "done"

(***************************************************************************)
(* C12: freeze_monitor never reads from the channel and never writes data  *)
(* bytes to it; it only toggles DTR and resets last_activity, only after   *)
(* boot_ready is set, and it starts a recovery only when the time since    *)
(* the last channel activity exceeds FREEZE_TIMEOUT.                       *)
(***************************************************************************)
C12_MonitorState ==
    /\ "freeze_monitor" \notin readers
    /\ \A i \in 1..Len(sfWrites) : sfWrites[i][1] # "freeze_monitor"
    /\ fmPc \in {"sleep", "recover"} => boot_ready
    /\ ~dtr => (freezeSeen /\ boot_ready /\ fmPc \in {"recover", "cancelled"})

\* a step of the monitor: no read, no write; DTR goes low only under the
\* freeze condition, and DTR goes high and last_activity is reset only to
\* end a recovery begun under it
C12_MonitorStep ==
    ((fmPc' # fmPc \/ fmWake' # fmWake \/ dtr' # dtr) /\ stPc' # "error") =>
        /\ UNCHANGED <<readers, sfWrites, delivered, bsBuf, key_sent, boot_ready>>
        /\ boot_ready \/ fmPc = "wait"
        /\ (dtr /\ ~dtr') =>
               (boot_ready /\ now - last_activity > FREEZE_TIMEOUT)
        /\ (last_activity' # last_activity \/ (~dtr /\ dtr')) =>
               (fmPc = "recover" /\ ~dtr /\ dtr' /\ freezeSeen
                   /\ last_activity' = now)

C12_MonitorOnlyRecovers == [](C12_MonitorState) /\ [][C12_MonitorStep]_vars

\* one recovery is complete: DTR is high again and last_activity was reset
C12_Witness ==
    /\ fmPc = "sleep" /\ freezeSeen /\ dtr
    /\ last_activity = now /\ fmWake = now + 1
    /\ now > FREEZE_TIMEOUT
    /\ Len(sfWrites) >= 1

ClaimedCandidate(n) ==
    IF n <= 15 THEN <<0, 65>> \o [k \in 1..(n - 1) |-> 0]
    ELSE IF n <= 15 + 256 THEN <<0, 65, n - 16>>
    ELSE IF n <= 15 + 256 + 95 THEN <<0, 32 + (n - 272), 1>>
    ELSE <<(n - 367), 65, 1>>

\* the payload bytes of a 0x0D frame without checksum: after the 0x55, the
\* opcode and the two length bytes, before the CR
ProbePayload(f) == SubSeq(f, 5, Len(f) - 1)

C13_State ==
    (prog = "suite" /\ ~acceptedSeen) =>
        /\ framesWritten <= 622
        /\ pc \in {"done", "exited"} /\ bootResult \in {"READY", "DEGRADED"} =>
               /\ framesWritten = 622
               /\ invoked = {1, 2, 3, 4}
               /\ suiteResult = 0
        /\ pc \in {"probe_write", "probe_read"} =>
               module = (IF framesWritten + (IF pc = "probe_write" THEN 1 ELSE 0) <= 15 THEN 1
                         ELSE IF framesWritten + (IF pc = "probe_write" THEN 1 ELSE 0) <= 271 THEN 2
                         ELSE IF framesWritten + (IF pc = "probe_write" THEN 1 ELSE 0) <= 366 THEN 3
                         ELSE 4)

C13_Step ==
    (prog = "suite" /\ ~acceptedSeen /\ framesWritten' # framesWritten) =>
        /\ framesWritten' = framesWritten + 1
        /\ ProbePayload(lastWrite') = ClaimedCandidate(framesWritten')
        /\ SubSeq(lastWrite', 1, 2) = <<85, 13>>
        /\ Len(ProbePayload(lastWrite')) =
               IF framesWritten' <= 15 THEN framesWritten' + 1 ELSE 3

C13_ExhaustiveRun == [](C13_State) /\ [][C13_Step]_vars

\* all 622 frames were sent without an accepted response; the last one is
\* the probe of group 0xFF
C13_Witness ==
    /\ prog = "suite" /\ pc = "exited" /\ ~acceptedSeen
    /\ framesWritten = 622 /\ suiteResult = 0
    /\ invoked = {1, 2, 3, 4}
    /\ ProbePayload(lastWrite) = <<255, 65, 1>>

(***************************************************************************)
(* C14: for every opcode 0..255 and every payload, the length of           *)
(* build_frame(opcode, payload) is preambleLen + 1 + 2 + len(payload)      *)
(* + (2 if checksummed) + (1 if terminated), opcode 0x0D having a          *)
(* one-byte preamble, checksum and terminator and every other opcode a     *)
(* two-byte preamble and neither; and the two bytes after the opcode       *)
(* decode back to len(payload) under the opcode's endianness.              *)
(***************************************************************************)
FamilyA(o) == o = 13
PreambleLen(o) == IF FamilyA(o) THEN 1 ELSE 2
ChecksumLen(o) == IF FamilyA(o) THEN 2 ELSE 0
TerminatorLen(o) == IF FamilyA(o) THEN 1 ELSE 0

\* the length field read back: big-endian for 0x0D, little-endian otherwise
DecodeLen(o, hi, lo) == IF FamilyA(o) THEN (hi * 256) + lo ELSE (lo * 256) + hi

C14_FrameShape ==
    codecPc = "done" =>
        /\ op \in 0..255
        /\ Len(frame) = PreambleLen(op) + 1 + 2 + Len(payload)
                            + ChecksumLen(op) + TerminatorLen(op)
        /\ frame[PreambleLen(op) + 1] = op
        /\ DecodeLen(op, frame[PreambleLen(op) + 2], frame[PreambleLen(op) + 3])
               = Len(payload)

\* opcode 0xFF with the 258-byte payload: 2 + 1 + 2 + 258 bytes, length
\* field 02 01
C14_Witness ==
    /\ codecPc = "done" /\ op = 255
    /\ Len(payload) = 258
    /\ Len(frame) = 263
    /\ SubSeq(frame, 1, 5) = <<85, 170, 255, 2, 1>>

(***************************************************************************)
(* C15: every frame builder in the repository encodes the 2-byte length    *)
(* field as len(payload), big-endian for opcode 0x0D and little-endian for *)
(* every other opcode, whether or not a checksum is appended.              *)
(***************************************************************************)
C15_LengthEndianness ==
    bPc \in {"built", "done"} =>
        DecodeLen(bOp, bFrame[PreambleLen(bOp) + 2], bFrame[PreambleLen(bOp) + 3])
            = Len(bPayload)

(***************************************************************************)
(* C16: every frame the automated suite writes for opcode 0x0D is          *)
(* byte-identical to the FrameCodec encoding of the same payload:          *)
(* automated_suite.build_frame and ate_command_sender.build_frame return   *)
(* the same bytes for every opcode and payload, so each 0x0D probe carries *)
(* the CRC-16/MODBUS checksum between payload and terminator.              *)
(***************************************************************************)
C16_SuiteFrameIsCodecFrame ==
    (bPc = "done" /\ builder = "automated_suite") =>
        /\ bFrame = bRef
        /\ bOp = 13 =>
               /\ Len(bFrame) = Len(bPayload) + 7
               /\ bFrame[Len(bFrame) - 2] + (256 * bFrame[Len(bFrame) - 1])
                      = RefCrc(SubSeq(bFrame, 2, 4 + Len(bPayload)))

(***************************************************************************)
(* C17: a response that contains both "Preamble Error" and "CMD Error" is  *)
(* classified COMMAND_ERROR; PROTOCOL_ERROR is assigned only when the      *)
(* response contains no command-error literal.                             *)
(***************************************************************************)
C17_CommandErrorWins ==
    classPc = "done" =>
        /\ (HasPreamble(response) /\ HasCmd(response)) =>
               classification = "COMMAND_ERROR"
        /\ classification = "PROTOCOL_ERROR" => ~HasCmd(response)

(***************************************************************************)
(* C18: checksum discovery never reports a candidate checksum as accepted  *)
(* ("GOOD" for a named algorithm, "found" for a brute-force value) when    *)
(* the device's response to that frame was empty.                          *)
(***************************************************************************)
C18_SilenceNotAccepted ==
    (dReport # <<>> /\ dReport[2] \in {"GOOD", "found"}) => dResp # <<>>


(***************************************************************************)
(* C20: the confirmation miss on the register-scan path.                   *)
(***************************************************************************)
\* the script has ended after a mode key was written and b"Example:" never
\* appeared in confirmation_buf
ConfirmMissed == ePc = "exited" /\ eKeys > 0 /\ ~eConfirmSeen

C21_PromptWaitTerminates == <>(pwPc # "prompt_wait")


(***************************************************************************)
(* C22..C24: what the register scans store.                                *)
(***************************************************************************)
\* the value stored under address a, NO_RESPONSE included
Stored(a) == DictGet(register_map, map_key(a))

\* address a has been recorded
Recorded(a) == map_key(a) \in DOMAIN register_map

\* the text of the echo of the read command for a, without its line end
EchoText(a) == Strip(read_command(a))

\* C22: in the two-phase scan the value recorded for an address never holds
\* the device's echo of the read command, whatever the timing of echo and
\* reply within the read windows.
C22_EchoNeverStored ==
    scanner = "daynight" =>
        \A a \in 0..(NUM_ADDRS - 1) :
            Recorded(a) => ~Contains(EchoText(a), Stored(a))

\* the value field of the reply that names address a
ReplyValue(a) == <<48, 120>> \o format_02x(RegValue(a))

\* C23: in the pattern-matching scan the value stored under address a was
\* extracted from a reply whose address field equals a.
C23_ValueFromOwnReply ==
    scanner = "master" =>
        \A a \in 0..(NUM_ADDRS - 1) :
            Recorded(a) =>
                \/ Stored(a) = NO_RESPONSE
                \/ LowerSeq(Stored(a)) = ReplyValue(a)

\* the reply for a arrives between the read command and the end of the
\* window of the two-phase scan (the echo read and the value read)
ReplyInWindow(a) ==
    LET rs == DeviceReads(KindOf(profile, a), a)
        w  == Concat(SubSeq(rs, 1, IF Len(rs) < 2 THEN Len(rs) ELSE 2))
    IN  Contains(LowerSeq(DeviceReply(a)), LowerSeq(w))

\* C24: an address is recorded as NO_RESPONSE only if no reply for it
\* arrived inside its read window; a reply that arrives in the same read as
\* the command echo is recorded as the value.
C24_NoResponseOnlyWhenSilent ==
    scanner = "daynight" =>
        \A a \in 0..(NUM_ADDRS - 1) :
            (Recorded(a) /\ Stored(a) = NO_RESPONSE) => ~ReplyInWindow(a)


(***************************************************************************)
(* C26: what checksum discovery sends and reports for one payload length.  *)
(***************************************************************************)
\* the response holds none of b"Error", b"CMD", b"Preamble"
NoErrorString(r) ==
    /\ ~Contains(<<69, 114, 114, 111, 114>>, r)
    /\ ~Contains(<<67, 77, 68>>, r)
    /\ ~Contains(<<80, 114, 101, 97, 109, 98, 108, 101>>, r)

C26_State ==
    /\ dIdx \in 1..Len(ALGORITHMS)
    /\ dCrc \in 0..(BRUTE_END - 1)
    /\ dPhase = "brute" => ~dAccepted
    /\ (dPhase = "named" /\ dPc = "read") =>
           LET p == pattern_prefix(dLength)
           IN  dFrame = discovery_frame(dLength, p,
                            candidate_crc(dIdx, p, frame_wo_crc(dLength, p)))
    /\ (dPhase = "brute" /\ dPc = "read") =>
           dFrame = discovery_frame(dLength, pattern_prefix(dLength), dCrc)

C26_Step ==
    /\ (dPhase = "named" /\ dPc = "read" /\ dIdx < Len(ALGORITHMS)) =>
           /\ dIdx' = dIdx + 1 /\ dPhase' = "named" /\ dPc' = "write"
           /\ dReport' = <<ALGORITHMS[dIdx],
                           IF NoErrorString(dResp') THEN "GOOD" ELSE "error">>
    /\ (dPhase = "named" /\ dPc = "read" /\ dIdx = Len(ALGORITHMS)) =>
           /\ dReport' = <<ALGORITHMS[dIdx],
                           IF NoErrorString(dResp') THEN "GOOD" ELSE "error">>
           /\ IF dAccepted \/ NoErrorString(dResp')
              THEN dPhase' = "named" /\ dIdx' = 1
              ELSE dPhase' = "brute" /\ dCrc' = 0 /\ dPc' = "write"
    /\ (dPhase = "brute" /\ dPc = "read") =>
           IF NoErrorString(dResp')
           THEN dReport' = <<"brute", "found">> /\ dPhase' = "named"
           ELSE IF dCrc + 1 < BRUTE_END
           THEN /\ dCrc' = dCrc + 1 /\ dPhase' = "brute" /\ dPc' = "write"
                /\ dReport' = dReport
           ELSE dReport' = <<"brute", "none">> /\ dPhase' = "named"

ModbusCandidateSent == dPhase = "named" /\ dPc = "read" /\ ALGORITHMS[dIdx] = "CRC16-IBM"

\* C27: for the CRC-16/MODBUS candidate the frame checksum discovery sends
\* is byte-identical to the codec's encoding of opcode 0x0D with the same
\* payload: big-endian length field, checksum over opcode, length field
\* and payload (not the preamble).
C27_DiscoveryFrameIsCodecFrame ==
    ModbusCandidateSent =>
        LET p == pattern_prefix(dLength)
            n == Len(dFrame)
        IN  /\ dFrame = build_frame(OP_0D, p)
            /\ dFrame[3] * 256 + dFrame[4] = Len(p)
            /\ dFrame[n - 2] + 256 * dFrame[n - 1]
                   = crc16_modbus(SubSeq(dFrame, 2, n - 3))


(***************************************************************************)
(* C28: the day/night analysis of a map against itself.                    *)
(***************************************************************************)
\* stage 3 has run on two equal maps
SelfCompared == diffPc = "done" /\ stage = 3 /\ day_map = other_map

\* C28: comparing a register map with itself yields an empty DYNAMIC set
\* and a STATIC set of exactly the addresses whose value in the map is not
\* NO_RESPONSE, each with that value.
C28_SelfDiff ==
    SelfCompared =>
        /\ DOMAIN dynamic_regs = {}
        /\ DOMAIN static_regs =
               {ClaimedKey(a) : a \in {x \in 0..255 :
                                          DictGet(day_map, ClaimedKey(x)) # NO_RESPONSE}}
        /\ \A k \in DOMAIN static_regs : static_regs[k] = DictGet(day_map, k)

\* a map with readable and unreadable addresses compared with itself
C28_Witness ==
    /\ SelfCompared
    /\ DictGet(day_map, ClaimedKey(1)) = NO_RESPONSE
    /\ DictGet(day_map, ClaimedKey(0)) = V01
    /\ ClaimedKey(0) \in DOMAIN static_regs
    /\ ClaimedKey(1) \notin DOMAIN static_regs


(***************************************************************************)
(* C29: the register write command of final_explorer.                      *)
(***************************************************************************)
\* the command write_register has written, <<>> before it has
WrittenByWriteRegister ==
    IF fePc = "done" /\ feOp = "write" THEN feCmds[1]
    ELSE IF fePc = "done" /\ feOp = "tweak-reset" /\ Len(feCmds) = 2 THEN feCmds[2]
    ELSE <<>>

\* the value write_register was called with
ValueWritten == IF feOp = "write" THEN feArg ELSE Xor(feOriginal, 1)

IsLowerHexDigit(c) == (c >= 48 /\ c <= 57) \/ (c >= 97 /\ c <= 102)

\* C29: every register write command is exactly the 7 bytes "01", two hex
\* digits of the address, two hex digits of the value, CR, for every
\* address and value write_register is called with, a value derived from a
\* register read (the parsed value XOR 1) included.
C29_WriteCommandIsSevenBytes ==
    LET c == WrittenByWriteRegister IN
    c # <<>> =>
        /\ Len(c) = 7
        /\ c[1] = 48 /\ c[2] = 49 /\ c[7] = 13
        /\ \A i \in 3..6 : IsLowerHexDigit(c[i])
        /\ ParseHex(SubSeq(c, 3, 4)) = feAddr
        /\ ParseHex(SubSeq(c, 5, 6)) = ValueWritten


(***************************************************************************)
(* C30: the mode key during boot synchronization.                          *)
(***************************************************************************)
\* the positions in sfWrites of the writes of task t
WritesOf(t) == {i \in 1..Len(sfWrites) : sfWrites[i][1] = t}

\* "please key 'y'" or "please key 'd'" is in b, ignoring case
PromptMarkerIn(b) ==
    LET lb == LowerSeq(b)
        pk == <<112, 108, 101, 97, 115, 101, 32, 107, 101, 121, 32, 39>>
    IN  Contains(pk \o <<121, 39>>, lb) \/ Contains(pk \o <<100, 39>>, lb)

\* C30: during boot synchronization the mode key is written at most once
\* per session and only after the prompt marker has appeared in the bytes
\* received so far; no command frame is written before the mode key, and
\* none while boot synchronization is in progress.
C30_KeyOnceAfterPrompt ==
    \* mbp481_superfuzzer.bootsync
    /\ Cardinality(WritesOf("bootsync")) <= 1
    /\ key_sent <=> WritesOf("bootsync") # {}
    /\ \A i \in WritesOf("bootsync") :
           /\ sfWrites[i][2] = (IF sfMode = "ate" THEN <<121, 13>> ELSE <<100, 13>>)
           /\ PromptMarkerIn(bsBuf)
    /\ \A i \in WritesOf("bootsync"), j \in WritesOf("strategy") : i < j
    /\ ~boot_ready => WritesOf("strategy") = {}
    \* ate_command_sender.boot_sync
    /\ keysWritten <= 1
    /\ keysWritten = 1 => promptSeen
    /\ framesWritten > 0 => keysWritten = 1

\* the prompt was received, the key written once, and the strategy's frame
\* written after it
C30_Witness ==
    /\ PromptMarkerIn(bsBuf)
    /\ sfWrites = << <<"bootsync", send_key(sfMode)>>, <<"strategy", memdump_frame>> >>


(***************************************************************************)
(* C31: what bootsync of mbp481_superfuzzer takes as confirmation.         *)
(***************************************************************************)
\* bootsync has reported "confirmed": it returned with the key written and
\* the confirmation pattern found in buf
BootConfirmed == bsPc = "done" /\ key_sent /\ confirm_search(sfMode, bsBuf)

\* C31: bootsync reports confirmation only on a ready marker received after
\* the mode key was written: the bytes received split into a part that holds
\* the key prompt (the key is written once it is complete) and a later part
\* that holds the ready marker.
C31_ReadyOnlyAfterKey ==
    BootConfirmed =>
        \E n \in 0..Len(bsBuf) :
            /\ PromptMarkerIn(SubSeq(bsBuf, 1, n))
            /\ confirm_search(sfMode, SubSeq(bsBuf, n + 1, Len(bsBuf)))


(***************************************************************************)
(* C32: the ready wait of mbp481_crc_discovery_fuzzer.                     *)
(***************************************************************************)
\* C32: after the mode key is written, if any one of the accepted ready
\* markers arrives within the ready wait, synchronization ends READY and the
\* "continuing anyway" path is not taken, whichever marker it is and
\* whenever within the wait it arrives.
C32_AnyMarkerIsReady == (rwPc = "degraded") => ~AnyReady(rwAll)


(***************************************************************************)
(* C33: the tweak-and-scan flow.                                           *)
(***************************************************************************)
\* the command writes 0x01 to register a
WritesOneTo(cmd, a) ==
    /\ Len(cmd) >= 7
    /\ SubSeq(cmd, 1, 2) = <<48, 49>>
    /\ SubSeq(cmd, Len(cmd) - 2, Len(cmd)) = <<48, 49, 13>>
    /\ ParseHex(SubSeq(cmd, 3, Len(cmd) - 3)) = a

\* at most one write, of 0x01 to the tweak register, and only once the
\* mode is confirmed; no scan command without it; without the confirmation
\* nothing is sent; a confirmed flow that has ended has sent its write
C33_State ==
    /\ Len(twWrites) <= 1
    /\ twWrites # <<>> => twConfirmSeen /\ WritesOneTo(twWrites[1], twReg)
    /\ cmdsWritten > 0 => Len(twWrites) = 1
    /\ ~twConfirmSeen => twWrites = <<>> /\ cmdsWritten = 0
    /\ twPc = "exited" /\ twConfirmSeen =>
           Len(twWrites) = 1 /\ cmdsWritten = NUM_ADDRS

\* the write is sent before any read command of the scan
C33_Step == twWrites' # twWrites => cmdsWritten = 0 /\ cmdsWritten' = 0

\* C33: in the tweak-and-scan flow exactly one register write command
\* (value 0x01 to the tweak register) is sent, only after CMOS mode has been
\* confirmed, and it precedes every read command of the scan that follows;
\* if mode entry fails, neither the write nor any scan command is sent.
C33_OneWriteThenScan == [](C33_State) /\ [][C33_Step]_vars

\* the flow has ended after a confirmed entry, the write and the full scan
C33_Witness ==
    /\ twPc = "exited" /\ twConfirmSeen
    /\ twWrites = << tweak_write_command(twReg, 1) >>
    /\ cmdsWritten = NUM_ADDRS



(***************************************************************************)
(* C35: final_explorer --tweak-reset.                                      *)
(***************************************************************************)
\* the write commands among the commands sent: those that begin with "01"
ExplorerWrites ==
    SelectSeq(feCmds, LAMBDA c : Len(c) >= 2 /\ SubSeq(c, 1, 2) = <<48, 49>>)

\* w is v with only its lowest bit flipped
LowestBitFlipped(v, w) == w \div 2 = v \div 2 /\ (w % 2) = 1 - (v % 2)

\* C35: in --tweak-reset, if the initial register read finds no matching
\* reply, no write command is sent; otherwise exactly one write command is
\* sent, to the same address, whose value equals the value read with only
\* its lowest bit flipped.
C35_TweakResetWrite ==
    (feOp = "tweak-reset" /\ fePc = "done") =>
        IF feOriginal = -1
        THEN ExplorerWrites = <<>>
        ELSE /\ Len(ExplorerWrites) = 1
             /\ \E w \in {feOriginal - 1, feOriginal + 1} :
                    /\ LowestBitFlipped(feOriginal, w)
                    /\ ExplorerWrites[1] =
                          <<48, 49>> \o format_02x(feAddr) \o format_02x(w) \o <<13>>

\* 0xff was read and 0xfe written back to the same address
C35_Witness ==
    /\ feOp = "tweak-reset" /\ fePc = "done"
    /\ feOriginal = 255
    /\ ExplorerWrites = << <<48, 49>> \o format_02x(feAddr) \o <<102, 101, 13>> >>


(***************************************************************************)
(* C36: the freeze watchdog of the fuzzer2 sweep.                          *)
(***************************************************************************)
\* the number of "e" at the end of h
RECURSIVE TrailingSilence(_)
TrailingSilence(h) ==
    IF h = <<>> \/ h[Len(h)] # "e" THEN 0
    ELSE 1 + TrailingSilence(SubSeq(h, 1, Len(h) - 1))

\* C36: in the sweep over val = 0..255 the recovery frame ESC NUL is written
\* exactly when three consecutive probes have returned an empty response
\* since the last non-empty response or the last recovery; the counter of
\* consecutive silences is reset to 0 by every non-empty response and by
\* every recovery, so it is always in 0..2 between probes.
C36_FreezeWatchdog ==
    /\ swFreeze \in 0..2
    /\ swFreeze = TrailingSilence(swHist)
    /\ \A i \in 1..Len(swHist) :
           swHist[i] = "r" =>
              \A j \in 1..3 : i - j >= 1 => swHist[i - j] = "e"
    /\ (swHist # <<>> /\ swHist[Len(swHist)] = "r") <=>
           (Len(swSent) = 2 /\ swSent[2] = <<27, 0>>)
    /\ Len(swSent) <= 2

\* the watchdog has just fired: three silent probes, then the recovery
C36_Witness ==
    /\ swHist = <<"e", "e", "e", "r">>
    /\ swSent = <<test_frame(swMode, swVal - 1), <<27, 0>> >>
    /\ swFreeze = 0 /\ swVal > 6


(***************************************************************************)
(* C37: gen_de_bruijn.                                                     *)
(***************************************************************************)
\* C37: gen_de_bruijn(length) terminates and returns exactly `length`
\* bytes, all drawn from the lowercase alphabet, for every length >= 0 and
\* every alphabet size, and returns the same sequence on every call.
C37_DeBruijnTerminates ==
    /\ dbPc # "failed"
    /\ dbPc = "returned" =>
          /\ Len(dbLast) = dbLength
          /\ \A i \in 1..Len(dbLast) : dbLast[i] \in 97..122
          /\ dbLast = dbFirst


(***************************************************************************)
(* C38: the commands of a register scan.                                   *)
(***************************************************************************)
\* the lowercase hex digit of n < 16, as a byte
LowerHexByte(n) == IF n < 10 THEN 48 + n ELSE 87 + n

\* "00" ++ two hex digits of a ++ "00" ++ CR
IsReadCommandFor(cmd, a) ==
    cmd = <<48, 48, LowerHexByte(a \div 16), LowerHexByte(a % 16), 48, 48, 13>>

\* C38: during a register scan every command written to the channel is a
\* read command ("00" ++ two hex digits of the address ++ "00" ++ CR), one
\* per address; the scan itself never sends a write command.
C38_ScanOnlyReads ==
    /\ cmdsWritten = addr + (IF scanPc = "write" THEN 0 ELSE 1)
    /\ cmdsWritten > 0 =>
          /\ SubSeq(lastCmd, 1, 2) # <<48, 49>>
          /\ IsReadCommandFor(lastCmd, IF scanPc = "write" THEN addr - 1 ELSE addr)

\* the scan is over and its last command was the read of 0xff
C38_Witness ==
    /\ scanPc = "saved" /\ cmdsWritten = NUM_ADDRS
    /\ lastCmd = <<48, 48, 102, 102, 48, 48, 13>>


(***************************************************************************)
(* C39: prompt detection and the way the prompt is split across reads.     *)
(***************************************************************************)
\* C39: prompt detection depends only on the concatenation of the bytes
\* received, not on how they are split across reads: the prompt is detected
\* as soon as the bytes delivered so far contain the marker, with any number
\* of empty timed-out reads in between, and not before.
C39_SplitIndependent ==
    (spPc = "detected") <=> Contains(split_marker(spScript), spStream)

\* the marker came in two reads with a timed-out read between them
C39_Witness ==
    /\ spPc = "detected" /\ spDataReads = 2 /\ spGap
    /\ spStream = split_marker(spScript)


(***************************************************************************)
(* C34 and C40: progress of mbp481_superfuzzer.                            *)
(***************************************************************************)
\* C34: in mbp481_superfuzzer, boot_ready is eventually set in every
\* execution, on confirmation or at the latest when the boot-sync deadline
\* expires, so the strategy, printer and freeze monitor are eventually
\* released even if the device sends nothing at all.
\* Stated for the moment the deadline has expired on a connected device.
C34_BootReadyByDeadline ==
    (bsPc \notin {"idle", "open"} /\ ~eof /\ now > deadline) => boot_ready

\* await asyncio.gather(*tasks) returns: each of the four tasks has ended
GatherDone ==
    bsPc = "done" /\ prPc = "done" /\ fmPc = "done" /\ stPc = "done"

\* C40: in mbp481_superfuzzer, after the selected strategy has written all
\* of its frames, main() eventually returns and the channel is closed.
C40_MainReturns == (stPc = "done") ~> GatherDone

====
